---- MODULE Spec2Model ----
(***************************************************************************)
(* Quorum configuration of stellar-core: src/main/Config.cpp.              *)
(*                                                                         *)
(* The module models the configuration load (Config::processConfig and the *)
(* functions it calls) as a state machine over the fields of Config and    *)
(* the locals of processConfig, and the threshold arithmetic as operators. *)
(*                                                                         *)
(* Encodings.  Public keys, validator names and home domains are strings   *)
(* in the program; here they are natural numbers, 0 standing for the empty *)
(* string, and the order of the numbers for the order of the strings.      *)
(* Qualities are the indices of kQualities.                                *)
(***************************************************************************)
EXTENDS Integers, Sequences, FiniteSets, TLC

VARIABLES
    pc,                 \* the step of the run that comes next
    doc,                \* the input: the parsed configuration document
    err,                \* what() of the exception that ended the load, "" if none
    errAt,              \* the step that threw it, "" if none
    FAILURE_SAFETY,     \* Config::FAILURE_SAFETY
    UNSAFE_QUORUM,      \* Config::UNSAFE_QUORUM
    NODE_IS_VALIDATOR,  \* Config::NODE_IS_VALIDATOR
    NODE_HOME_DOMAIN,   \* Config::NODE_HOME_DOMAIN
    QUORUM_SET,         \* Config::QUORUM_SET, the active tree
    VALIDATOR_NAMES,    \* Config::VALIDATOR_NAMES, a set of <<key, name>>
    validators,         \* processConfig's local: the ValidatorEntry list
    domainQualityMap,   \* processConfig's local: a set of <<domain, quality>>
    autoQSet,           \* processConfig's local: the generated tree
    mixedDomains,       \* processConfig's local
    ret                 \* the value returned by the function a step applied

vars == <<pc, doc, err, errAt, FAILURE_SAFETY, UNSAFE_QUORUM, NODE_IS_VALIDATOR,
          NODE_HOME_DOMAIN, QUORUM_SET, VALIDATOR_NAMES, validators,
          domainQualityMap, autoQSet, mixedDomains, ret>>

configVars == <<FAILURE_SAFETY, UNSAFE_QUORUM, NODE_IS_VALIDATOR,
                NODE_HOME_DOMAIN, QUORUM_SET, VALIDATOR_NAMES>>

localVars == <<validators, domainQualityMap, autoQSet, mixedDomains>>

----------------------------------------------------------------------------
(* Bounds of the model.                                                    *)

\* most validators and most inner sets of a group handed to the arithmetic
MaxGroupValidators == 24
MaxGroupInnerSets == 3

----------------------------------------------------------------------------
(* Program constants.                                                      *)

VALIDATOR_LOW_QUALITY == 0
VALIDATOR_MED_QUALITY == 1
VALIDATOR_HIGH_QUALITY == 2

\* int thresholdPercent = 67
DefaultThresholdPercent == 67

\* FAILURE_SAFETY = -1 in the constructor: "not configured"
FailureSafetyUnset == -1

\* uint32(1 + (size_t(0) * percent - 1) / 100) = uint32(1 + (2^64 - 1) / 100)
\* = 4123168605, the threshold loadQset computes for a group without
\* children.  TLC's integers end at 2^31 - 1; this number stands for it.  It is
\* read by the test against 0 and by comparisons with child counts only, and
\* like 4123168605 it is not 0 and above every child count.
EmptyGroupThreshold == 2147483647

----------------------------------------------------------------------------
(* SCPQuorumSet and the threshold arithmetic.                              *)

\* a default-constructed SCPQuorumSet
EmptyQSet == [threshold |-> 0, validators |-> <<>>, innerSets |-> <<>>]

QSetOf(t, v, i) == [threshold |-> t, validators |-> v, innerSets |-> i]

\* computeDefaultThreshold with the n = 2f + 1 rule in both branches
computeDefaultThresholdDivTwo(qset, simpleMajority) ==
    LET topSize == Len(qset.validators) + Len(qset.innerSets)
    IN  IF topSize = 0 THEN 0 ELSE topSize - (topSize - 1) \div 2

\* computeDefaultThreshold with the n = 3f + 1 rule in both branches
computeDefaultThresholdDivThree(qset, simpleMajority) ==
    LET topSize == Len(qset.validators) + Len(qset.innerSets)
    IN  IF topSize = 0 THEN 0 ELSE topSize - (topSize - 1) \div 3

computeDefaultThreshold(qset, simpleMajority) ==
    LET topSize == Len(qset.validators) + Len(qset.innerSets)
    IN  IF topSize = 0
        THEN 0
        ELSE IF simpleMajority /\ qset.innerSets = <<>>
             THEN topSize - (topSize - 1) \div 2
             ELSE topSize - (topSize - 1) \div 3

\* the percentage rounded down instead of up
percentThresholdTruncated(n, thresholdPercent) ==
    IF n * thresholdPercent = 0
    THEN EmptyGroupThreshold
    ELSE (n * thresholdPercent) \div 100

\* loadQset's "round up: n*percent/100", n the number of children
percentThreshold(n, thresholdPercent) ==
    IF n * thresholdPercent = 0
    THEN EmptyGroupThreshold
    ELSE 1 + (n * thresholdPercent - 1) \div 100

----------------------------------------------------------------------------
(* The arithmetic applied to groups of every size within the bounds.       *)

ArithGroups ==
    { QSetOf(0, [i \in 1..nv |-> 10 * i], [j \in 1..ni |-> QSetOf(1, <<10 * (nv + j)>>, <<>>)]) :
        nv \in 0..MaxGroupValidators, ni \in 0..MaxGroupInnerSets }

ConfigDefaults ==
    /\ FAILURE_SAFETY = FailureSafetyUnset
    /\ UNSAFE_QUORUM = FALSE
    /\ NODE_IS_VALIDATOR = FALSE
    /\ NODE_HOME_DOMAIN = 0
    /\ QUORUM_SET = EmptyQSet
    /\ VALIDATOR_NAMES = {}

LocalsDefaults ==
    /\ validators = <<>>
    /\ domainQualityMap = {}
    /\ autoQSet = EmptyQSet
    /\ mixedDomains = FALSE

InitArith ==
    /\ pc = "arith"
    /\ doc \in [qset : ArithGroups, simpleMajority : BOOLEAN, percent : 1..100]
    /\ err = ""
    /\ errAt = ""
    /\ ret = 0
    /\ ConfigDefaults
    /\ LocalsDefaults

ComputeDefault ==
    /\ pc = "arith"
    /\ ret' = computeDefaultThreshold(doc.qset, doc.simpleMajority)
    /\ pc' = "default"
    /\ UNCHANGED <<doc, err, errAt, configVars, localVars>>

ComputePercent ==
    /\ pc = "arith"
    /\ ret' = percentThreshold(Len(doc.qset.validators) + Len(doc.qset.innerSets),
                               doc.percent)
    /\ pc' = "percent"
    /\ UNCHANGED <<doc, err, errAt, configVars, localVars>>

NextArith == ComputeDefault \/ ComputePercent

SpecArith == InitArith /\ [][NextArith]_vars

----------------------------------------------------------------------------
(* Results of the functions that can throw: err is what() of the exception *)
(* ("" when the function returned), val what it returned or left behind.   *)

Ok(v) == [err |-> "", val |-> v]
Throw(msg, v) == [err |-> msg, val |-> v]

NoQuality == -1

Qualities == {VALIDATOR_LOW_QUALITY, VALIDATOR_MED_QUALITY, VALIDATOR_HIGH_QUALITY}

\* the pairs of a set of pairs whose first component is k
Lookup(map, k) == {p \in map : p[1] = k}

----------------------------------------------------------------------------
(* Identity registry.                                                      *)

\* KeyUtils::fromStrKey<PublicKey> returns (it throws std::invalid_argument
\* for a string that is no encoding of a key): the strings 10, 11, ... stand
\* for encoded keys, 1 .. 9 for strings that are none
validStrKey(s) == s >= 10

\* expandNodeID("$" + name): the key of the first entry of VALIDATOR_NAMES, in
\* the order of the map, with this name, 0 (the empty string) if there is
\* none
expandNodeIDByName(names, name) ==
    IF \E p \in names : p[2] = name
    THEN (CHOOSE p \in names : p[2] = name /\ \A q \in names : q[2] = name => p[1] <= q[1])[1]
    ELSE 0

\* resolveNodeID("$" + name, k): "$" alone (the name is empty) is handed on as
\* it is and is no key; otherwise the entry found has to hold a key
resolveNodeIDByName(names, name) ==
    /\ name # 0
    /\ expandNodeIDByName(names, name) # 0
    /\ validStrKey(expandNodeIDByName(names, name))

\* addValidatorName without the test of the name
addValidatorNameKeyOnly(names, pubKeyStr, name) ==
    IF Lookup(names, pubKeyStr) # {}
    THEN Throw("naming node twice", names)
    ELSE Ok(names \cup {<<pubKeyStr, name>>})

\* addValidatorName: val is VALIDATOR_NAMES afterwards
addValidatorName(names, pubKeyStr, name) ==
    IF resolveNodeIDByName(names, name)
    THEN Throw("name already used", names)
    ELSE IF Lookup(names, pubKeyStr) # {}
         THEN Throw("naming node twice", names)
         ELSE Ok(names \cup {<<pubKeyStr, name>>})

\* the first five characters of an encoded key: keys 10j .. 10j+9 share them
KeyPrefix(k) == k \div 10

\* toShortString, as a pair that tells a name from a key prefix
toShortString(names, pk) ==
    IF Lookup(names, pk) = {}
    THEN <<"key", KeyPrefix(pk)>>
    ELSE <<"name", (CHOOSE p \in names : p[1] = pk)[2]>>

----------------------------------------------------------------------------
(* Validator/domain model.                                                 *)

RECURSIVE parseDomainsQualityFrom(_, _, _)
parseDomainsQualityFrom(tarr, i, res) ==
    IF i > Len(tarr)
    THEN Ok(res)
    ELSE LET f == tarr[i]
         IN  IF f.quality = NoQuality \/ f.domain = 0
             THEN Throw("Malformed HOME_DOMAINS", res)
             ELSE IF Lookup(res, f.domain) # {}
                  THEN Throw("Malformed HOME_DOMAINS: duplicate", res)
                  ELSE parseDomainsQualityFrom(tarr, i + 1,
                                               res \cup {<<f.domain, f.quality>>})

parseDomainsQuality(tarr) == parseDomainsQualityFrom(tarr, 1, {})

\* the test for HIGH quality without HISTORY left out
highNeedsArchiveUnchecked(quality, hist) == FALSE

\* HIGH quality without HISTORY: the entry is refused
highNeedsArchive(quality, hist) ==
    quality = VALIDATOR_HIGH_QUALITY /\ ~hist

\* the test for two quality sources left out
qualityAlreadyDefinedUnchecked(inMap, qualitySet) == FALSE

\* globQualityIt != domainQualityMap.end() and qualitySet
qualityAlreadyDefined(inMap, qualitySet) == inMap /\ qualitySet

\* !qualitySet after the look-up in the map
qualityMissing(inMap, qualitySet) == ~inMap /\ ~qualitySet

\* the body of parseValidators' loop from entry i on; val is
\* [res |-> the entries so far, names |-> VALIDATOR_NAMES]
RECURSIVE parseValidatorsFrom(_, _, _, _, _)
parseValidatorsFrom(tarr, i, dqm, names, res) ==
    IF i > Len(tarr)
    THEN Ok([res |-> res, names |-> names])
    ELSE LET f == tarr[i]
             here == [res |-> res, names |-> names]
             inMap == Lookup(dqm, f.homeDomain) # {}
             qualitySet == f.quality # NoQuality
             mQuality == IF inMap
                         THEN (CHOOSE p \in dqm : p[1] = f.homeDomain)[2]
                         ELSE f.quality
             named == addValidatorName(names, f.pubKey, f.name)
             ve == [mName |-> f.name, mHomeDomain |-> f.homeDomain,
                    mQuality |-> mQuality, mKey |-> f.pubKey,
                    mHasHistory |-> f.hist]
         IN  IF f.name = 0
             THEN Throw("malformed VALIDATORS entry: missing 'NAME'", here)
             ELSE IF f.pubKey = 0 \/ f.homeDomain = 0
             THEN Throw("malformed VALIDATORS entry", here)
             ELSE IF qualityAlreadyDefined(inMap, qualitySet)
             THEN Throw("quality already defined in home domain", here)
             ELSE IF qualityMissing(inMap, qualitySet)
             THEN Throw("missing quality", here)
             ELSE IF named.err # ""
             THEN Throw(named.err, here)
             ELSE IF highNeedsArchive(mQuality, f.hist)
             THEN Throw("high quality must have an archive",
                        [res |-> res, names |-> named.val])
             ELSE parseValidatorsFrom(tarr, i + 1, dqm, named.val,
                                      Append(res, ve))

parseValidators(tarr, dqm, names) == parseValidatorsFrom(tarr, 1, dqm, names, <<>>)

\* the key of the local node (NODE_SEED's public key) and the name of its entry
SelfKey == 90
SelfName == 9

\* addSelfToValidators with LOW quality for a home domain that has none
addSelfToValidatorsLowByDefault(vals, dqm, homeDomain) ==
    Ok(Append(vals, [mName |-> SelfName, mHomeDomain |-> homeDomain,
                     mQuality |-> IF Lookup(dqm, homeDomain) # {}
                                  THEN (CHOOSE p \in dqm : p[1] = homeDomain)[2]
                                  ELSE VALIDATOR_LOW_QUALITY,
                     mKey |-> SelfKey, mHasHistory |-> FALSE]))

\* addSelfToValidators: val is the list afterwards
addSelfToValidators(vals, dqm, homeDomain) ==
    IF Lookup(dqm, homeDomain) # {}
    THEN Ok(Append(vals, [mName |-> SelfName, mHomeDomain |-> homeDomain,
                          mQuality |-> (CHOOSE p \in dqm : p[1] = homeDomain)[2],
                          mKey |-> SelfKey, mHasHistory |-> FALSE]))
    ELSE Throw("Must specify a matching HOME_DOMAINS for self", vals)

----------------------------------------------------------------------------
(* Capabilities of scp/LocalNode and scp/QuorumSetUtils.                   *)

RECURSIVE forAllNodes(_)
\* the identities anywhere in the tree
forAllNodes(q) ==
    {q.validators[i] : i \in 1..Len(q.validators)} \cup
    UNION {forAllNodes(q.innerSets[i]) : i \in 1..Len(q.innerSets)}

RECURSIVE SumSeq(_)
SumSeq(s) == IF s = <<>> THEN 0 ELSE Head(s) + SumSeq(Tail(s))

\* the k smallest numbers of a sequence of numbers, added up
RECURSIVE SumSmallest(_, _)
SumSmallest(costs, k) ==
    IF k <= 0 \/ costs = <<>>
    THEN 0
    ELSE LET m == CHOOSE i \in 1..Len(costs) : \A j \in 1..Len(costs) : costs[i] <= costs[j]
             rest == [j \in 1..(Len(costs) - 1) |-> IF j < m THEN costs[j] ELSE costs[j + 1]]
         IN  costs[m] + SumSmallest(rest, k - 1)

\* the size of the smallest set of identities whose failure blocks the tree:
\* 1 + n - threshold of the n children have to be blocked, a validator by
\* itself and an inner set by its own smallest blocking set
RECURSIVE findClosestVBlockingSize(_)
findClosestVBlockingSize(q) ==
    LET n == Len(q.validators) + Len(q.innerSets)
        costs == [i \in 1..n |->
                     IF i <= Len(q.validators)
                     THEN 1
                     ELSE findClosestVBlockingSize(q.innerSets[i - Len(q.validators)])]
    IN  SumSmallest(costs, 1 + n - q.threshold)

\* whether the identities of nodes block every way to reach the threshold
RECURSIVE isVBlocking(_, _)
isVBlocking(q, nodes) ==
    LET n == Len(q.validators) + Len(q.innerSets)
        blocked == Cardinality({i \in 1..Len(q.validators) : q.validators[i] \in nodes})
                   + Cardinality({i \in 1..Len(q.innerSets) : isVBlocking(q.innerSets[i], nodes)})
    IN  q.threshold # 0 /\ blocked >= 1 + n - q.threshold

RECURSIVE validatorsOf(_)
\* the identities of the tree as a sequence, each as often as it occurs
validatorsOf(q) ==
    IF q.innerSets = <<>>
    THEN q.validators
    ELSE q.validators \o validatorsOf(Head(q.innerSets))
         \o validatorsOf([q EXCEPT !.validators = <<>>, !.innerSets = Tail(q.innerSets)])

RECURSIVE thresholdsSane(_, _, _)
\* every threshold within 1 .. 100% of the children (from 51% when strict),
\* and no nesting below the third level
thresholdsSane(q, strict, depth) ==
    LET n == Len(q.validators) + Len(q.innerSets)
    IN  /\ depth <= 2
        /\ q.threshold >= 1
        /\ q.threshold <= n
        /\ strict => 100 * q.threshold >= 51 * n
        /\ \A i \in 1..Len(q.innerSets) : thresholdsSane(q.innerSets[i], strict, depth + 1)

isQuorumSetSane(q, strict) ==
    /\ thresholdsSane(q, strict, 0)
    /\ Len(validatorsOf(q)) = Cardinality(forAllNodes(q))

RECURSIVE normalizeQSet(_)
\* singleton inner sets join the validators, and a node that is nothing but
\* one inner set under a threshold of 1 is replaced by that inner set
normalizeQSet(q) ==
    LET inner == [i \in 1..Len(q.innerSets) |-> normalizeQSet(q.innerSets[i])]
        singleton(s) == s.threshold = 1 /\ Len(s.validators) = 1 /\ s.innerSets = <<>>
        merged == SelectSeq(inner, singleton)
        kept == SelectSeq(inner, LAMBDA s : ~singleton(s))
        v == q.validators \o [i \in 1..Len(merged) |-> merged[i].validators[1]]
    IN  IF q.threshold = 1 /\ v = <<>> /\ Len(kept) = 1
        THEN kept[1]
        ELSE QSetOf(q.threshold, v, kept)

RECURSIVE toJson(_, _)
\* the rendering of a tree: its threshold, the short names of its validators
\* and the renderings of its inner sets
toJson(names, q) ==
    <<q.threshold,
      [i \in 1..Len(q.validators) |-> toShortString(names, q.validators[i])],
      [i \in 1..Len(q.innerSets) |-> toJson(names, q.innerSets[i])]>>

----------------------------------------------------------------------------
(* Automatic quorum-set generator.                                         *)

\* the comparison with the home domains the other way round
sortBeforeDomainDescending(l, r) ==
    IF l.mQuality > r.mQuality
    THEN TRUE
    ELSE IF l.mQuality < r.mQuality
         THEN FALSE
         ELSE l.mHomeDomain > r.mHomeDomain

\* the comparison generateQuorumSet sorts by: quality descending, then home
\* domain ascending
sortBefore(l, r) ==
    IF l.mQuality > r.mQuality
    THEN TRUE
    ELSE IF l.mQuality < r.mQuality
         THEN FALSE
         ELSE l.mHomeDomain < r.mHomeDomain

\* what std::sort can leave: every arrangement in which no entry stands
\* behind one it is to stand before (std::sort keeps no order among equals).
\* An arrangement starts with an entry that none is to stand before.
RECURSIVE sortedArrangements(_)
sortedArrangements(vals) ==
    IF vals = <<>>
    THEN {<<>>}
    ELSE LET n == Len(vals)
             firsts == {i \in 1..n : \A j \in 1..n : ~sortBefore(vals[j], vals[i])}
             without(i) == [k \in 1..(n - 1) |-> IF k < i THEN vals[k] ELSE vals[k + 1]]
         IN  UNION {{<<vals[i]>> \o rest : rest \in sortedArrangements(without(i))} :
                    i \in firsts}

\* the inner for loop left after one entry
domainRunEndAfterOne(todo, it) == it + 1

\* it2 when the inner for loop is left without a throw: the first position
\* after it whose home domain is another, end (Len + 1) if there is none
domainRunEnd(todo, it) ==
    LET stops == {j \in (it + 1)..Len(todo) : todo[j].mHomeDomain # todo[it].mHomeDomain}
    IN  IF stops = {} THEN Len(todo) + 1
        ELSE CHOOSE j \in stops : \A k \in stops : j <= k

\* the redundancy test with 2 for 3
lacksRedundancyOfTwo(size, quality) ==
    size < 2 /\ quality = VALIDATOR_HIGH_QUALITY

\* vals.size() < 3 && it->mQuality == VALIDATOR_HIGH_QUALITY
lacksRedundancy(size, quality) ==
    size < 3 /\ quality = VALIDATOR_HIGH_QUALITY

\* the recursive call made for the tier of its caller
recursionTierOfCaller(itQuality, curQuality) == curQuality

\* the third argument of the recursive call: it->mQuality
recursionTier(itQuality, curQuality) == itQuality

\* generateQuorumSetHelper(begin, end, curQuality) with its while loop at it
\* and ret.innerSets = inner so far
RECURSIVE generateQuorumSetHelperFrom(_, _, _, _)
generateQuorumSetHelperFrom(todo, it, curQuality, inner) ==
    IF it <= Len(todo) /\ todo[it].mQuality = curQuality
    THEN LET it2 == domainRunEnd(todo, it)
             vals == [k \in 1..(it2 - it) |-> todo[it + k - 1].mKey]
             innerSet == QSetOf(computeDefaultThreshold(QSetOf(0, vals, <<>>), TRUE),
                                vals, <<>>)
         IN  IF \E j \in it..(it2 - 1) : todo[j].mQuality # todo[it].mQuality
             THEN Throw("Validators must have same quality", EmptyQSet)
             ELSE IF lacksRedundancy(Len(vals), todo[it].mQuality)
             THEN Throw("High quality validator must have redundancy of at least 3",
                        EmptyQSet)
             ELSE generateQuorumSetHelperFrom(todo, it2, curQuality,
                                              Append(inner, innerSet))
    ELSE IF it <= Len(todo)
         THEN IF todo[it].mQuality > curQuality
              THEN Throw("invalid validator quality (must be ascending)", EmptyQSet)
              ELSE LET lowQ == generateQuorumSetHelperFrom(
                                   todo, it, recursionTier(todo[it].mQuality, curQuality), <<>>)
                       all == Append(inner, lowQ.val)
                   IN  IF lowQ.err # ""
                       THEN lowQ
                       ELSE Ok(QSetOf(computeDefaultThreshold(QSetOf(0, <<>>, all), FALSE),
                                      <<>>, all))
         ELSE Ok(QSetOf(computeDefaultThreshold(QSetOf(0, <<>>, inner), FALSE),
                        <<>>, inner))

generateQuorumSetHelper(todo, begin, curQuality) ==
    generateQuorumSetHelperFrom(todo, begin, curQuality, <<>>)

\* generateQuorumSet on a list already sorted
generateQuorumSetSorted(todo) ==
    LET res == generateQuorumSetHelper(todo, 1, VALIDATOR_HIGH_QUALITY)
    IN  IF res.err # "" THEN res ELSE Ok(normalizeQSet(res.val))

\* generateQuorumSet: the results it can have, one for each arrangement the
\* sort can leave
generateQuorumSet(vals) ==
    {generateQuorumSetSorted(todo) : todo \in sortedArrangements(vals)}

----------------------------------------------------------------------------
(* Manual quorum-set parser.                                               *)
(*                                                                         *)
(* A group of the document is [percent, validators, groups]: percent is    *)
(* THRESHOLD_PERCENT (0 when the key is absent), validators the keys of    *)
(* VALIDATORS, groups the tables of the group in the order the table       *)
(* iterates them.                                                          *)

\* the level test one level later
tooManyLevelsAboveThree(level) == level > 3

\* level > 2
tooManyLevels(level) == level > 2

\* the test without its second disjunct
invalidDefinitionThresholdOnly(threshold, nValidators, nInnerSets) ==
    threshold = 0

\* qset.threshold == 0 || (qset.validators.empty() && qset.innerSets.empty())
invalidDefinition(threshold, nValidators, nInnerSets) ==
    threshold = 0 \/ (nValidators = 0 /\ nInnerSets = 0)

RECURSIVE loadQset(_, _)
RECURSIVE loadQsetGroups(_, _, _, _)

\* the recursive calls of loadQset for the tables of a group from the i-th
\* on; val is qset.innerSets
loadQsetGroups(groups, i, level, inner) ==
    IF i > Len(groups)
    THEN Ok(inner)
    ELSE LET sub == loadQset(groups[i], level + 1)
         IN  IF sub.err # ""
             THEN Throw(sub.err, inner)
             ELSE loadQsetGroups(groups, i + 1, level, Append(inner, sub.val))

loadQset(group, level) ==
    IF tooManyLevels(level)
    THEN Throw("too many levels in quorum set", EmptyQSet)
    ELSE LET thresholdPercent == IF group.percent = 0
                                 THEN DefaultThresholdPercent
                                 ELSE group.percent
             inner == loadQsetGroups(group.groups, 1, level, <<>>)
             threshold == percentThreshold(Len(group.validators) + Len(inner.val),
                                           thresholdPercent)
         IN  IF inner.err # ""
             THEN Throw(inner.err, EmptyQSet)
             ELSE IF invalidDefinition(threshold, Len(group.validators), Len(inner.val))
                  THEN Throw("invalid quorum set definition", EmptyQSet)
                  ELSE Ok(QSetOf(threshold, group.validators, inner.val))

----------------------------------------------------------------------------
(* Quorum safety validator: the tests of validateConfig.                   *)

\* validateConfig without the test for an empty tree
noValidatorsDefinedUnchecked(nodes) == FALSE

\* nodes.empty()
noValidatorsDefined(nodes) == nodes = {}

\* the comparison with > for >=
safetyBoundUnreachableStrict(failureSafety, rSize) == failureSafety > rSize

\* FAILURE_SAFETY >= static_cast<int32_t>(r.size())
safetyBoundUnreachable(failureSafety, rSize) == failureSafety >= rSize

\* the two tests made whatever UNSAFE_QUORUM is
unsafeTestsMadeAlways(unsafeQuorum) == TRUE

\* if (!UNSAFE_QUORUM): whether the two tests of the block are made
unsafeTestsMade(unsafeQuorum) == ~unsafeQuorum

\* the comparison off by one
thresholdTooLowByTwo(threshold, minSize) == threshold + 1 < minSize

\* QUORUM_SET.threshold < minSize
thresholdTooLow(threshold, minSize) == threshold < minSize

\* minSize by the n = 3f + 1 rule whatever mixed is
minSizeOfByzantine(qset, mixed) == computeDefaultThreshold(qset, FALSE)

\* unsigned int minSize = computeDefaultThreshold(QUORUM_SET, !mixed)
minSizeOf(qset, mixed) == computeDefaultThreshold(qset, ~mixed)

\* what validateConfig(mixed) does: err is the exception it throws, val the
\* value it leaves in FAILURE_SAFETY
validateConfig(qset, failureSafety, unsafeQuorum, mixed) ==
    LET nodes == forAllNodes(qset)
        rSize == findClosestVBlockingSize(qset)
        minSize == minSizeOf(qset, mixed)
        topLevelCount == Len(qset.validators) + Len(qset.innerSets)
        fs == IF failureSafety = FailureSafetyUnset
              THEN topLevelCount - minSize
              ELSE failureSafety
    IN  IF noValidatorsDefined(nodes)
        THEN Throw("no validators defined in VALIDATORS/QUORUM_SET", failureSafety)
        ELSE IF safetyBoundUnreachable(fs, rSize)
        THEN Throw("FAILURE_SAFETY incompatible with QUORUM_SET", fs)
        ELSE IF unsafeTestsMade(unsafeQuorum) /\ fs = 0
        THEN Throw("SCP unsafe", fs)
        ELSE IF unsafeTestsMade(unsafeQuorum) /\ thresholdTooLow(qset.threshold, minSize)
        THEN Throw("SCP unsafe", fs)
        ELSE IF ~isQuorumSetSane(qset, ~unsafeQuorum)
        THEN Throw("Invalid QUORUM_SET", fs)
        ELSE Ok(fs)

\* verifyHistoryValidatorsBlocking without its throw
verifyHistoryValidatorsBlockingWarnOnly(qset, vals, unsafeQuorum) == ""

\* verifyHistoryValidatorsBlocking: the exception it throws
verifyHistoryValidatorsBlocking(qset, vals, unsafeQuorum) ==
    LET archives == {vals[i].mKey : i \in {j \in 1..Len(vals) : vals[j].mHasHistory}}
    IN  IF ~isVBlocking(qset, archives) /\ ~unsafeQuorum
        THEN "SCP unsafe"
        ELSE ""

----------------------------------------------------------------------------
(* The configuration documents the load is run on.                         *)

\* largest FAILURE_SAFETY a document sets
MaxFailureSafety == 2
\* most keys in VALIDATORS of the root group and of a nested group
MaxRootValidators == 4
MaxInnerValidators == 2
\* most entries of [[VALIDATORS]]
MaxValidators == 4

KeysFrom(base, k) == [i \in 1..k |-> base + 10 * i]

Group(p, v, g) == [percent |-> p, validators |-> v, groups |-> g]

NoGroup == Group(0, <<>>, <<>>)

\* tables at level 3, 2 and 1 of QUORUM_SET, each with keys of its own
DocGroups3 == {Group(0, KeysFrom(300, 1), <<>>)}

DocGroups2 ==
    {Group(0, KeysFrom(200, k), g) :
        k \in 0..1, g \in {<<>>} \cup {<<x>> : x \in DocGroups3}}

DocGroups1 ==
    {Group(p, KeysFrom(100, k), g) :
        p \in {0, 50}, k \in 0..MaxInnerValidators,
        g \in {<<>>} \cup {<<x>> : x \in DocGroups2}}

DocGroupsFlat == {Group(0, KeysFrom(400, k), <<>>) : k \in 0..MaxInnerValidators}

\* QUORUM_SET tables: up to two tables under the root, the first up to three
\* levels deep
DocQuorumSets ==
    {Group(p, KeysFrom(0, k), g) :
        p \in {0, 1, 50, 100}, k \in 0..MaxRootValidators,
        g \in {<<>>} \cup {<<x>> : x \in DocGroups1}
              \cup {<<x, y>> : x \in DocGroups1, y \in DocGroupsFlat}}
    \cup {Group(0, <<10, 10, 20>>, <<>>), Group(0, <<10, 11, 20>>, <<>>),
          Group(0, <<10>>, <<Group(0, <<10, 20>>, <<>>)>>)}

\* the i-th entry of [[VALIDATORS]]: NAME i, PUBLIC_KEY 10 i
RawEntry(i, kind) ==
    [name |-> i, pubKey |-> 10 * i, homeDomain |-> kind[1], quality |-> kind[2],
     hist |-> kind[3]]

\* HOME_DOMAIN, QUALITY (NoQuality: no such field) and whether HISTORY is set
EntryKinds ==
    {<<1, VALIDATOR_HIGH_QUALITY, TRUE>>, <<1, NoQuality, TRUE>>,
     <<2, VALIDATOR_MED_QUALITY, TRUE>>, <<2, VALIDATOR_MED_QUALITY, FALSE>>,
     <<3, VALIDATOR_LOW_QUALITY, FALSE>>}

DocValidators ==
    UNION {{[i \in 1..n |-> RawEntry(i, kinds[i])] : kinds \in [1..n -> EntryKinds]} :
           n \in 0..MaxValidators}

DocHomeDomains ==
    {<<>>, <<[domain |-> 1, quality |-> VALIDATOR_HIGH_QUALITY]>>}

DocFailureSafety == FailureSafetyUnset..MaxFailureSafety

LoadDoc(hasQS, qs, vs, hd, fs, unsafe, niv, nhd) ==
    [hasQuorumSet |-> hasQS, QUORUM_SET |-> qs, VALIDATORS |-> vs,
     HOME_DOMAINS |-> hd, FAILURE_SAFETY |-> fs, UNSAFE_QUORUM |-> unsafe,
     NODE_IS_VALIDATOR |-> niv, NODE_HOME_DOMAIN |-> nhd]

\* documents with QUORUM_SET and no [[VALIDATORS]]
ManualDocs ==
    {LoadDoc(TRUE, qs, <<>>, <<>>, fs, unsafe, FALSE, 0) :
        qs \in DocQuorumSets, fs \in DocFailureSafety, unsafe \in BOOLEAN}

\* documents with [[VALIDATORS]] and no QUORUM_SET
AutoDocs ==
    {LoadDoc(FALSE, NoGroup, vs, hd, fs, unsafe, niv, 1) :
        vs \in DocValidators, hd \in DocHomeDomains, fs \in DocFailureSafety,
        unsafe \in BOOLEAN, niv \in BOOLEAN}

\* documents with both
BothDocs ==
    {LoadDoc(TRUE, Group(p, KeysFrom(0, k), <<>>),
             [i \in 1..n |-> RawEntry(i, <<2, NoQuality, TRUE>>)],
             <<[domain |-> 2, quality |-> VALIDATOR_MED_QUALITY]>>, fs, unsafe, niv, 2) :
        p \in {0, 50}, k \in 1..3, n \in 1..3, fs \in DocFailureSafety,
        unsafe \in BOOLEAN, niv \in BOOLEAN}

LoadDocs == ManualDocs \cup AutoDocs \cup BothDocs

----------------------------------------------------------------------------
(* The load: Config::processConfig, one step for each function it calls.   *)

Init ==
    /\ pc = "items"
    /\ doc \in LoadDocs
    /\ err = ""
    /\ errAt = ""
    /\ ret = 0
    /\ ConfigDefaults
    /\ LocalsDefaults

\* an exception leaves processConfig
Fail(msg) ==
    /\ pc' = "failed"
    /\ err' = msg
    /\ errAt' = pc

\* the loop over the items of the document: the scalars are stored, and
\* HOME_DOMAINS is parsed; VALIDATORS and QUORUM_SET are left for later.  The
\* items come in an order the program does not fix; the step is the whole
\* loop, with HOME_DOMAINS, the one item here that can throw, as the last.
ReadItems ==
    /\ pc = "items"
    /\ FAILURE_SAFETY' = doc.FAILURE_SAFETY
    /\ UNSAFE_QUORUM' = doc.UNSAFE_QUORUM
    /\ NODE_IS_VALIDATOR' = doc.NODE_IS_VALIDATOR
    /\ NODE_HOME_DOMAIN' = doc.NODE_HOME_DOMAIN
    /\ LET dq == parseDomainsQuality(doc.HOME_DOMAINS)
       IN  /\ domainQualityMap' = dq.val
           /\ IF dq.err # ""
              THEN Fail(dq.err)
              ELSE pc' = "validators" /\ UNCHANGED <<err, errAt>>
    /\ UNCHANGED <<doc, ret, QUORUM_SET, VALIDATOR_NAMES, validators, autoQSet,
                   mixedDomains>>

\* validators = parseValidators(vals, domainQualityMap)
ParseValidators ==
    /\ pc = "validators"
    /\ LET r == parseValidators(doc.VALIDATORS, domainQualityMap, VALIDATOR_NAMES)
       IN  /\ VALIDATOR_NAMES' = r.val.names
           /\ IF r.err # ""
              THEN Fail(r.err) /\ UNCHANGED validators
              ELSE /\ validators' = r.val.res
                   /\ pc' = "self"
                   /\ UNCHANGED <<err, errAt>>
    /\ UNCHANGED <<doc, ret, FAILURE_SAFETY, UNSAFE_QUORUM, NODE_IS_VALIDATOR,
                   NODE_HOME_DOMAIN, QUORUM_SET, domainQualityMap, autoQSet,
                   mixedDomains>>

\* if only QUORUM_SET is specified, validators stays empty
AddSelf ==
    /\ pc = "self"
    /\ IF NODE_IS_VALIDATOR /\ ~(validators = <<>> /\ doc.hasQuorumSet)
       THEN LET r == addSelfToValidators(validators, domainQualityMap, NODE_HOME_DOMAIN)
            IN  /\ validators' = r.val
                /\ IF r.err # ""
                   THEN Fail(r.err)
                   ELSE pc' = "generate" /\ UNCHANGED <<err, errAt>>
       ELSE pc' = "generate" /\ UNCHANGED <<validators, err, errAt>>
    /\ UNCHANGED <<doc, ret, configVars, domainQualityMap, autoQSet, mixedDomains>>

\* autoQSet = generateQuorumSet(validators)
GenerateQuorumSet ==
    /\ pc = "generate"
    /\ \E r \in generateQuorumSet(validators) :
          IF r.err # ""
          THEN Fail(r.err) /\ UNCHANGED autoQSet
          ELSE /\ autoQSet' = r.val
               /\ pc' = IF doc.hasQuorumSet THEN "qset" ELSE "auto"
               /\ UNCHANGED <<err, errAt>>
    /\ UNCHANGED <<doc, ret, configVars, validators, domainQualityMap, mixedDomains>>

\* the comparison made whether or not there are validators
overridesValidatorsWhenEmpty(s, autoQSetStr, vals) == s # autoQSetStr

\* s != autoQSetStr && !validators.empty()
overridesValidators(s, autoQSetStr, vals) == s # autoQSetStr /\ vals # <<>>

\* t->contains("QUORUM_SET"): the tree of the document is loaded and compared
\* with the generated one.  The documents name their validators by key, so
\* loadQset adds no name to VALIDATOR_NAMES; after a throw QUORUM_SET is left
\* empty here, where the program leaves the part it had read.
LoadQuorumSet ==
    /\ pc = "qset"
    /\ LET r == loadQset(doc.QUORUM_SET, 0)
           s == toJson(VALIDATOR_NAMES, r.val)
           autoQSetStr == toJson(VALIDATOR_NAMES, autoQSet)
       IN  /\ QUORUM_SET' = r.val
           /\ IF r.err # ""
              THEN Fail(r.err) /\ UNCHANGED mixedDomains
              ELSE IF overridesValidators(s, autoQSetStr, validators) /\ ~UNSAFE_QUORUM
                   THEN Fail("SCP unsafe") /\ UNCHANGED mixedDomains
                   ELSE /\ mixedDomains' = TRUE
                        /\ pc' = "validate"
                        /\ UNCHANGED <<err, errAt>>
    /\ UNCHANGED <<doc, ret, FAILURE_SAFETY, UNSAFE_QUORUM, NODE_IS_VALIDATOR,
                   NODE_HOME_DOMAIN, VALIDATOR_NAMES, validators, domainQualityMap,
                   autoQSet>>

\* the domains counted as mixed whatever they are
spanSeveralDomainsAlways(vals) == TRUE

\* domains.size() > 1, domains the home domains of the validators
spanSeveralDomains(vals) ==
    Cardinality({vals[i].mHomeDomain : i \in 1..Len(vals)}) > 1

\* no QUORUM_SET in the document: the generated tree becomes the active one
UseGenerated ==
    /\ pc = "auto"
    /\ QUORUM_SET' = autoQSet
    /\ LET e == verifyHistoryValidatorsBlocking(autoQSet, validators, UNSAFE_QUORUM)
       IN  IF e # ""
           THEN Fail(e) /\ UNCHANGED mixedDomains
           ELSE /\ mixedDomains' = spanSeveralDomains(validators)
                /\ pc' = "validate"
                /\ UNCHANGED <<err, errAt>>
    /\ UNCHANGED <<doc, ret, FAILURE_SAFETY, UNSAFE_QUORUM, NODE_IS_VALIDATOR,
                   NODE_HOME_DOMAIN, VALIDATOR_NAMES, validators, domainQualityMap,
                   autoQSet>>

\* validateConfig(mixedDomains)
ValidateConfig ==
    /\ pc = "validate"
    /\ LET r == validateConfig(QUORUM_SET, FAILURE_SAFETY, UNSAFE_QUORUM, mixedDomains)
       IN  /\ FAILURE_SAFETY' = r.val
           /\ IF r.err # ""
              THEN Fail(r.err)
              ELSE pc' = "done" /\ UNCHANGED <<err, errAt>>
    /\ UNCHANGED <<doc, ret, UNSAFE_QUORUM, NODE_IS_VALIDATOR, NODE_HOME_DOMAIN,
                   QUORUM_SET, VALIDATOR_NAMES, localVars>>

Next ==
    \/ ReadItems
    \/ ParseValidators
    \/ AddSelf
    \/ GenerateQuorumSet
    \/ LoadQuorumSet
    \/ UseGenerated
    \/ ValidateConfig

Spec == Init /\ [][Next]_vars

----------------------------------------------------------------------------
(* The generator applied to validator lists.                               *)

\* most entries of a list handed to generateQuorumSet
MaxGenValidators == 4

GenDomains == {1, 2, 3, 4}

\* a list as parseValidators leaves it: entry i has name i and key 10 i, and
\* a HIGH entry has an archive
GenList(n, f) ==
    [i \in 1..n |-> [mName |-> i, mHomeDomain |-> f[i][1], mQuality |-> f[i][2],
                     mKey |-> 10 * i,
                     mHasHistory |-> (f[i][2] = VALIDATOR_HIGH_QUALITY)]]

InitGen ==
    /\ pc = "gen"
    /\ \E n \in 0..MaxGenValidators :
          \E f \in [1..n -> GenDomains \X Qualities] :
             doc = [validators |-> GenList(n, f)]
    /\ err = ""
    /\ errAt = ""
    /\ ret = 0
    /\ ConfigDefaults
    /\ LocalsDefaults

Generate ==
    /\ pc = "gen"
    /\ \E r \in generateQuorumSet(doc.validators) : ret' = r
    /\ pc' = "generated"
    /\ UNCHANGED <<doc, err, errAt, configVars, localVars>>

\* generateQuorumSetHelper on the list as the sort left it: ret is what it
\* returned or threw, with the sorted list
GenerateHelper ==
    /\ pc = "gen"
    /\ \E todo \in sortedArrangements(doc.validators) :
          LET r == generateQuorumSetHelper(todo, 1, VALIDATOR_HIGH_QUALITY)
          IN  ret' = [err |-> r.err, val |-> r.val, todo |-> todo]
    /\ pc' = "helped"
    /\ UNCHANGED <<doc, err, errAt, configVars, localVars>>

NextGen == Generate \/ GenerateHelper

SpecGen == InitGen /\ [][NextGen]_vars

----------------------------------------------------------------------------
(* The assembly of the validator/domain model: the item loop,              *)
(* parseValidators and addSelfToValidators on documents whose entries have *)
(* every combination of home domain, QUALITY and HISTORY.                  *)

\* most entries of [[VALIDATORS]] of a document of the assembly
MaxAssemblyValidators == 2

\* HOME_DOMAIN, QUALITY (NoQuality: no such field), HISTORY set or not
AssemblyKinds == {1, 2} \X ({NoQuality} \cup Qualities) \X BOOLEAN

\* HOME_DOMAINS with quality q1 for domain 1 and q2 for domain 2, NoQuality
\* for a domain that has no entry
AssemblyHomeDomains(q1, q2) ==
    SelectSeq(<<[domain |-> 1, quality |-> q1], [domain |-> 2, quality |-> q2]>>,
              LAMBDA e : e.quality # NoQuality)

InitAssembly ==
    /\ pc = "items"
    /\ \E n \in 0..MaxAssemblyValidators :
          \E kinds \in [1..n -> AssemblyKinds] :
             \E q1 \in {NoQuality} \cup Qualities, q2 \in {NoQuality} \cup Qualities :
                \E hasQS \in BOOLEAN, niv \in BOOLEAN :
                   doc = LoadDoc(hasQS,
                                 IF hasQS THEN Group(0, KeysFrom(0, 3), <<>>) ELSE NoGroup,
                                 [i \in 1..n |-> RawEntry(i, kinds[i])],
                                 AssemblyHomeDomains(q1, q2),
                                 FailureSafetyUnset, FALSE, niv, 1)
    /\ err = ""
    /\ errAt = ""
    /\ ret = 0
    /\ ConfigDefaults
    /\ LocalsDefaults

NextAssembly ==
    \/ ReadItems
    \/ ParseValidators
    \/ AddSelf

SpecAssembly == InitAssembly /\ [][NextAssembly]_vars

----------------------------------------------------------------------------
(* The identity registry under calls of addValidatorName with the          *)
(* arguments its callers hand it: parseNodeID for "KEY name" decodes the   *)
(* key first and calls for a name that is not empty, parseValidators calls *)
(* for a NAME that is not empty and decodes PUBLIC_KEY on the next line,   *)
(* where a string that is no key ends the load.                            *)

\* encoded keys and names
RegistryKeys == {10, 20, 30}
RegistryNames == {1, 2, 3}

\* ret tells the last call: its arguments and VALIDATOR_NAMES before it
LastCall(k, name, before) == [key |-> k, name |-> name, before |-> before]

InitRegistry ==
    /\ pc = "registry"
    /\ doc = 0
    /\ err = ""
    /\ errAt = ""
    /\ ret = LastCall(0, 0, {})
    /\ ConfigDefaults
    /\ LocalsDefaults

\* one call of addValidatorName; err is what it threw, "" if it returned
RegisterName ==
    /\ pc = "registry"
    /\ \E k \in RegistryKeys, name \in RegistryNames :
          LET r == addValidatorName(VALIDATOR_NAMES, k, name)
          IN  /\ VALIDATOR_NAMES' = r.val
              /\ err' = r.err
              /\ ret' = LastCall(k, name, VALIDATOR_NAMES)
    /\ UNCHANGED <<pc, doc, errAt, FAILURE_SAFETY, UNSAFE_QUORUM, NODE_IS_VALIDATOR,
                   NODE_HOME_DOMAIN, QUORUM_SET, localVars>>

NextRegistry == RegisterName

SpecRegistry == InitRegistry /\ [][NextRegistry]_vars

----------------------------------------------------------------------------
(* The load with the item loop taken one item at a time, in every order    *)
(* the table can hand its items out ("cpptoml returns the items in         *)
(* non-deterministic order").  ret is the set of the keys read so far.     *)

\* most entries of [[VALIDATORS]] of a document of this load
MaxOrderValidators == 3

\* the keys of the document
PresentKeys(d) ==
    {"FAILURE_SAFETY", "UNSAFE_QUORUM", "NODE_IS_VALIDATOR", "NODE_HOME_DOMAIN"}
    \cup (IF d.HOME_DOMAINS # <<>> THEN {"HOME_DOMAINS"} ELSE {})
    \cup (IF d.VALIDATORS # <<>> THEN {"VALIDATORS"} ELSE {})
    \cup (IF d.hasQuorumSet THEN {"QUORUM_SET"} ELSE {})

\* the entries of a document: of one home domain, all with QUALITY or all
\* without
OrderKinds == {<<1, NoQuality, TRUE>>, <<1, VALIDATOR_MED_QUALITY, TRUE>>}

OrderHomeDomains ==
    {<<>>, <<[domain |-> 1, quality |-> VALIDATOR_HIGH_QUALITY]>>,
     <<[domain |-> 1, quality |-> VALIDATOR_LOW_QUALITY]>>}

InitOrder ==
    /\ pc = "item"
    /\ \E n \in 0..MaxOrderValidators, kind \in OrderKinds, hd \in OrderHomeDomains :
          \E hasQS \in BOOLEAN, niv \in BOOLEAN, unsafe \in BOOLEAN :
             \E fs \in {FailureSafetyUnset, 1} :
                doc = LoadDoc(hasQS,
                              IF hasQS THEN Group(0, KeysFrom(0, n), <<>>) ELSE NoGroup,
                              [i \in 1..n |-> RawEntry(i, kind)],
                              hd, fs, unsafe, niv, 1)
    /\ err = ""
    /\ errAt = ""
    /\ ret = {}
    /\ ConfigDefaults
    /\ LocalsDefaults

\* the item VALIDATORS parsed where the loop meets it
itemValidatorsParsedAtOnce(tarr, dqm, names, vals) == parseValidators(tarr, dqm, names)

\* item.first == "VALIDATORS" in the loop: "processed later"
itemValidators(tarr, dqm, names, vals) == Ok([res |-> vals, names |-> names])

\* one turn of the loop over the items, for an item not yet read
ReadItem ==
    /\ pc = "item"
    /\ \E key \in PresentKeys(doc) \ ret :
          LET dq == IF key = "HOME_DOMAINS"
                    THEN parseDomainsQuality(doc.HOME_DOMAINS)
                    ELSE Ok(domainQualityMap)
              vs == IF key = "VALIDATORS"
                    THEN itemValidators(doc.VALIDATORS, domainQualityMap,
                                        VALIDATOR_NAMES, validators)
                    ELSE Ok([res |-> validators, names |-> VALIDATOR_NAMES])
          IN  /\ ret' = ret \cup {key}
              /\ FAILURE_SAFETY' = IF key = "FAILURE_SAFETY"
                                   THEN doc.FAILURE_SAFETY ELSE FAILURE_SAFETY
              /\ UNSAFE_QUORUM' = IF key = "UNSAFE_QUORUM"
                                  THEN doc.UNSAFE_QUORUM ELSE UNSAFE_QUORUM
              /\ NODE_IS_VALIDATOR' = IF key = "NODE_IS_VALIDATOR"
                                      THEN doc.NODE_IS_VALIDATOR ELSE NODE_IS_VALIDATOR
              /\ NODE_HOME_DOMAIN' = IF key = "NODE_HOME_DOMAIN"
                                     THEN doc.NODE_HOME_DOMAIN ELSE NODE_HOME_DOMAIN
              /\ domainQualityMap' = dq.val
              /\ validators' = vs.val.res
              /\ VALIDATOR_NAMES' = vs.val.names
              /\ IF dq.err # ""
                 THEN Fail(dq.err)
                 ELSE IF vs.err # ""
                      THEN Fail(vs.err)
                      ELSE /\ pc' = IF ret \cup {key} = PresentKeys(doc)
                                    THEN "validators" ELSE "item"
                           /\ UNCHANGED <<err, errAt>>
    /\ UNCHANGED <<doc, QUORUM_SET, autoQSet, mixedDomains>>

NextOrder ==
    \/ ReadItem
    \/ ParseValidators
    \/ AddSelf
    \/ GenerateQuorumSet
    \/ LoadQuorumSet
    \/ UseGenerated
    \/ ValidateConfig

SpecOrder == InitOrder /\ [][NextOrder]_vars

----------------------------------------------------------------------------
(* The load of documents without QUORUM_SET and without FAILURE_SAFETY,    *)
(* whose [[VALIDATORS]] entries take every home domain and every QUALITY.  *)

\* most entries of [[VALIDATORS]] of such a document
MaxAutoValidators == 4

AutoDomains == {1, 2, 3}

\* HISTORY is set for a HIGH entry, and for the others as hist says
AutoEntry(i, kind, hist) ==
    RawEntry(i, <<kind[1], kind[2], kind[2] = VALIDATOR_HIGH_QUALITY \/ hist>>)

InitAuto ==
    /\ pc = "items"
    /\ \E n \in 0..MaxAutoValidators :
          \E kinds \in [1..n -> AutoDomains \X Qualities] :
             \E hist \in BOOLEAN, unsafe \in BOOLEAN :
                doc = LoadDoc(FALSE, NoGroup,
                              [i \in 1..n |-> AutoEntry(i, kinds[i], hist)],
                              <<>>, FailureSafetyUnset, unsafe, FALSE, 0)
    /\ err = ""
    /\ errAt = ""
    /\ ret = 0
    /\ ConfigDefaults
    /\ LocalsDefaults

NextAuto ==
    \/ ReadItems
    \/ ParseValidators
    \/ AddSelf
    \/ GenerateQuorumSet
    \/ UseGenerated
    \/ ValidateConfig

SpecAuto == InitAuto /\ [][NextAuto]_vars

----------------------------------------------------------------------------
(* generateQuorumSet step by step: the sort, then generateQuorumSetHelper  *)
(* with its calls as frames of a stack.  ret is [todo, stack, val]: the    *)
(* sorted list, the frames of the calls that have not returned (the last   *)
(* is the one that runs), and the tree generateQuorumSet returned.  A      *)
(* frame is [begin, curQuality, it, inner, joined]: the arguments, the     *)
(* iterator it, ret.innerSets so far, and whether lowQ has been added.     *)

\* most entries of a list handed to generateQuorumSet here
MaxHelperValidators == 4

\* calls of the helper that can be open at a time
MaxHelperDepth == 4

HelperDomains == {1, 2}

Frame(begin, curQuality) ==
    [begin |-> begin, curQuality |-> curQuality, it |-> begin, inner |-> <<>>,
     joined |-> FALSE]

HelperState(todo, stack, val) == [todo |-> todo, stack |-> stack, val |-> val]

\* the lists handed to generateQuorumSet: entry i has name i and key 10 i, and
\* the entries stand by home domain and then by quality, lowest first, which
\* is not the order of the sort.  Any other list is one of these with the
\* names and keys of its entries exchanged, which the generator does not
\* look at.
HelperListed(n, f) ==
    \A i \in 1..n : \A j \in (i + 1)..n :
        \/ f[i][1] < f[j][1]
        \/ f[i][1] = f[j][1] /\ f[i][2] <= f[j][2]

InitHelper ==
    /\ pc = "sort"
    /\ \E n \in 0..MaxHelperValidators :
          \E f \in [1..n -> HelperDomains \X Qualities] :
             /\ HelperListed(n, f)
             /\ doc = [validators |-> GenList(n, f)]
    /\ err = ""
    /\ errAt = ""
    /\ ret = HelperState(<<>>, <<>>, EmptyQSet)
    /\ ConfigDefaults
    /\ LocalsDefaults

\* the frame that runs
Top == ret.stack[Len(ret.stack)]

\* an exception leaves generateQuorumSet: every frame is gone
HelperThrow(msg) ==
    /\ pc' = "threw"
    /\ err' = msg
    /\ errAt' = pc
    /\ ret' = [ret EXCEPT !.stack = <<>>]

\* std::sort, and the call of the helper for the whole list and HIGH
SortValidators ==
    /\ pc = "sort"
    /\ \E todo \in sortedArrangements(doc.validators) :
          ret' = HelperState(todo, <<Frame(1, VALIDATOR_HIGH_QUALITY)>>, EmptyQSet)
    /\ pc' = "helper"
    /\ UNCHANGED <<doc, err, errAt, configVars, localVars>>

\* one turn of the while loop: the run of one home domain becomes an inner
\* set and it moves behind the run
HelperLoop ==
    /\ pc = "helper"
    /\ ~Top.joined
    /\ Top.it <= Len(ret.todo)
    /\ ret.todo[Top.it].mQuality = Top.curQuality
    /\ LET todo == ret.todo
           it == Top.it
           it2 == domainRunEnd(todo, it)
           vals == [k \in 1..(it2 - it) |-> todo[it + k - 1].mKey]
           innerSet == QSetOf(computeDefaultThreshold(QSetOf(0, vals, <<>>), TRUE),
                              vals, <<>>)
       IN  IF \E j \in it..(it2 - 1) : todo[j].mQuality # todo[it].mQuality
           THEN HelperThrow("Validators must have same quality")
           ELSE IF lacksRedundancy(Len(vals), todo[it].mQuality)
           THEN HelperThrow("High quality validator must have redundancy of at least 3")
           ELSE /\ ret' = [ret EXCEPT !.stack[Len(ret.stack)] =
                                  [Top EXCEPT !.it = it2, !.inner = Append(@, innerSet)]]
                /\ UNCHANGED <<pc, err, errAt>>
    /\ UNCHANGED <<doc, configVars, localVars>>

\* if (it != end) after the loop: the throw, or the recursive call
HelperRecurse ==
    /\ pc = "helper"
    /\ ~Top.joined
    /\ Top.it <= Len(ret.todo)
    /\ ret.todo[Top.it].mQuality # Top.curQuality
    /\ Len(ret.stack) < MaxHelperDepth
    /\ IF ret.todo[Top.it].mQuality > Top.curQuality
       THEN HelperThrow("invalid validator quality (must be ascending)")
       ELSE /\ ret' = [ret EXCEPT !.stack =
                              Append(@, Frame(Top.it,
                                              recursionTier(ret.todo[Top.it].mQuality,
                                                            Top.curQuality)))]
            /\ UNCHANGED <<pc, err, errAt>>
    /\ UNCHANGED <<doc, configVars, localVars>>

\* ret.threshold = computeDefaultThreshold(ret, false); return ret: the caller
\* adds the tree to its inner sets, and generateQuorumSet normalizes the tree
\* of the first call and returns it
HelperReturn ==
    /\ pc = "helper"
    /\ Top.joined \/ Top.it > Len(ret.todo)
    /\ LET n == Len(ret.stack)
           res == QSetOf(computeDefaultThreshold(QSetOf(0, <<>>, Top.inner), FALSE),
                         <<>>, Top.inner)
       IN  IF n = 1
           THEN /\ ret' = [ret EXCEPT !.stack = <<>>, !.val = normalizeQSet(res)]
                /\ pc' = "returned"
           ELSE /\ ret' = [ret EXCEPT !.stack =
                                  Append(SubSeq(@, 1, n - 2),
                                         [@[n - 1] EXCEPT !.inner = Append(@, res),
                                                          !.joined = TRUE])]
                /\ pc' = "helper"
    /\ UNCHANGED <<doc, err, errAt, configVars, localVars>>

NextHelper ==
    \/ SortValidators
    \/ HelperLoop
    \/ HelperRecurse
    \/ HelperReturn

\* the call runs on one thread until it returns or throws
SpecHelper == InitHelper /\ [][NextHelper]_vars /\ WF_vars(NextHelper)

----------------------------------------------------------------------------
(* The load of documents with QUORUM_SET alone, whose root has no          *)
(* THRESHOLD_PERCENT and from one child to many.                           *)

\* most keys in VALIDATORS of the root of such a document
MaxManualRootValidators == 104

\* the tables under the root: none, or one with two keys of its own
ManualRootGroups == {<<>>, <<Group(0, KeysFrom(2000, 2), <<>>)>>}

InitManualRoot ==
    /\ pc = "items"
    /\ \E k \in 0..MaxManualRootValidators, g \in ManualRootGroups :
          \E fs \in {FailureSafetyUnset, 1}, unsafe \in BOOLEAN :
             /\ k + Len(g) >= 1
             /\ doc = LoadDoc(TRUE, Group(0, KeysFrom(0, k), g), <<>>, <<>>, fs, unsafe,
                              FALSE, 0)
    /\ err = ""
    /\ errAt = ""
    /\ ret = 0
    /\ ConfigDefaults
    /\ LocalsDefaults

NextManualRoot ==
    \/ ReadItems
    \/ ParseValidators
    \/ AddSelf
    \/ GenerateQuorumSet
    \/ LoadQuorumSet
    \/ ValidateConfig

SpecManualRoot == InitManualRoot /\ [][NextManualRoot]_vars

----------------------------------------------------------------------------
(* Properties of the threshold arithmetic (checked under SpecArith).       *)

ArithChildren == Len(doc.qset.validators) + Len(doc.qset.innerSets)

\* the arithmetic took the n = 3f + 1 branch
ArithByzantine == ~(doc.simpleMajority /\ doc.qset.innerSets = <<>>)

\* C1: for every n >= 1 the Byzantine default threshold t of a group of n
\* top-level children leaves n - t = floor((n - 1) / 3), that is, n - t is the
\* one number f with 3 f <= n - 1 < 3 f + 3.
ByzantineThresholdToleratesThird ==
    (pc = "default" /\ ArithByzantine /\ ArithChildren >= 1) =>
        /\ 3 * (ArithChildren - ret) <= ArithChildren - 1
        /\ ArithChildren - 1 < 3 * (ArithChildren - ret) + 3

ByzantineThresholdReached ==
    /\ pc = "default"
    /\ ArithByzantine
    /\ ArithChildren = 7
    /\ ret = 5

\* C2: for every n >= 1 the simple-majority default threshold t of a flat
\* group of n members is a strict majority, 2 t > n, and the least one,
\* 2 (t - 1) <= n.
SimpleMajorityThresholdIsLeastMajority ==
    (pc = "default" /\ doc.simpleMajority /\ doc.qset.innerSets = <<>>
        /\ ArithChildren >= 1) =>
        /\ 2 * ret > ArithChildren
        /\ 2 * (ret - 1) <= ArithChildren

SimpleMajorityThresholdReached ==
    /\ pc = "default"
    /\ doc.simpleMajority
    /\ doc.qset.innerSets = <<>>
    /\ ArithChildren = 6
    /\ ret = 4

\* C3: for every group of n >= 1 children and every percent p in 1..100 the
\* threshold 1 + (n p - 1) / 100 of the manual parser is the ceiling of
\* n p / 100 (the least t with 100 t >= n p), is at least 1, and is n when
\* p = 100.
PercentThresholdIsCeiling ==
    (pc = "percent" /\ ArithChildren >= 1) =>
        /\ 100 * ret >= ArithChildren * doc.percent
        /\ 100 * (ret - 1) < ArithChildren * doc.percent
        /\ ret >= 1
        /\ doc.percent = 100 => ret = ArithChildren

\* n = 4, p = 50 gives 2
PercentThresholdReached ==
    /\ pc = "percent"
    /\ ArithChildren = 4
    /\ Len(doc.qset.validators) = 4
    /\ doc.percent = 50
    /\ ret = 2

----------------------------------------------------------------------------
(* Properties of the load (checked under Spec).                            *)

\* the load has come to validateConfig: it is about to run, or it has run
\* and returned or thrown
AtValidation == pc = "validate" \/ pc = "done" \/ errAt = "validate"

\* validateConfig has run
Validated == pc = "done" \/ errAt = "validate"

RECURSIVE WellFormed(_)
\* every node of the tree has a child and a threshold from 1 to the number
\* of its children
WellFormed(q) ==
    /\ Len(q.validators) + Len(q.innerSets) >= 1
    /\ 1 <= q.threshold
    /\ q.threshold <= Len(q.validators) + Len(q.innerSets)
    /\ \A i \in 1..Len(q.innerSets) : WellFormed(q.innerSets[i])

RECURSIVE HasEmptyGroup(_)
\* some table of the group has neither validators nor tables
HasEmptyGroup(g) ==
    \/ g.validators = <<>> /\ g.groups = <<>>
    \/ \E i \in 1..Len(g.groups) : HasEmptyGroup(g.groups[i])

RECURSIVE GroupLevels(_)
\* the deepest level of a table of the group, the group itself at level 0
GroupLevels(g) ==
    IF g.groups = <<>>
    THEN 0
    ELSE 1 + (CHOOSE m \in {GroupLevels(g.groups[i]) : i \in 1..Len(g.groups)} :
                 \A i \in 1..Len(g.groups) : GroupLevels(g.groups[i]) <= m)

RECURSIVE QSetLevels(_)
QSetLevels(q) ==
    IF q.innerSets = <<>>
    THEN 0
    ELSE 1 + (CHOOSE m \in {QSetLevels(q.innerSets[i]) : i \in 1..Len(q.innerSets)} :
                 \A i \in 1..Len(q.innerSets) : QSetLevels(q.innerSets[i]) <= m)

ActiveNodes == forAllNodes(QUORUM_SET)
ActiveVBlockingSize == findClosestVBlockingSize(QUORUM_SET)
ActiveMinSize == computeDefaultThreshold(QUORUM_SET, ~mixedDomains)

\* C4: after a load that completes, every node of the active tree has at
\* least one child and a threshold t with 1 <= t <= validators + inner sets
\* (the trees the parser and the generator hand to validation have it as soon
\* as they hold an identity); and a QUORUM_SET with a table that has neither
\* validators nor tables is refused by the parser: the load does not come to
\* validation.
ActiveTreeWellFormed ==
    /\ pc = "done" => WellFormed(QUORUM_SET)
    /\ (AtValidation /\ ActiveNodes # {}) => WellFormed(QUORUM_SET)
    /\ (doc.hasQuorumSet /\ HasEmptyGroup(doc.QUORUM_SET)) => ~AtValidation

ActiveTreeWellFormedReached ==
    /\ pc = "done"
    /\ doc.hasQuorumSet
    /\ Len(QUORUM_SET.innerSets) = 2
    /\ QUORUM_SET.innerSets[1].innerSets # <<>>

\* C5: the parser takes tables at levels 0, 1 and 2 and throws for a table
\* at level 3: a QUORUM_SET that is loaded has at most 3 levels, a document
\* with a table at level 3 never comes to validation, and "too many levels"
\* is thrown for no document whose tables end at level 2.
ManualTreeAtMostThreeLevels ==
    /\ (doc.hasQuorumSet /\ AtValidation) =>
           /\ GroupLevels(doc.QUORUM_SET) <= 2
           /\ QSetLevels(QUORUM_SET) = GroupLevels(doc.QUORUM_SET)
    /\ (doc.hasQuorumSet /\ GroupLevels(doc.QUORUM_SET) >= 3) => ~AtValidation
    /\ (errAt = "qset" /\ err = "too many levels in quorum set") =>
           GroupLevels(doc.QUORUM_SET) >= 3

\* a tree with a table at level 2 is loaded and passes validation
ManualTreeAtMostThreeLevelsReached ==
    /\ pc = "done"
    /\ doc.hasQuorumSet
    /\ GroupLevels(doc.QUORUM_SET) = 2
    /\ QSetLevels(QUORUM_SET) = 2

\* C6: validation throws "FAILURE_SAFETY incompatible with QUORUM_SET"
\* whenever FAILURE_SAFETY, configured or derived, is at least the size of the
\* smallest v-blocking set of the active tree, with UNSAFE_QUORUM or without;
\* a load completes only with FAILURE_SAFETY below that size.
FailureSafetyBelowVBlocking ==
    /\ pc = "done" => FAILURE_SAFETY < ActiveVBlockingSize
    /\ (Validated /\ ActiveNodes # {} /\ FAILURE_SAFETY >= ActiveVBlockingSize) =>
           /\ pc = "failed"
           /\ err = "FAILURE_SAFETY incompatible with QUORUM_SET"

\* thrown with UNSAFE_QUORUM set, for a bound that equals the size
FailureSafetyBelowVBlockingReached ==
    /\ pc = "failed"
    /\ errAt = "validate"
    /\ err = "FAILURE_SAFETY incompatible with QUORUM_SET"
    /\ UNSAFE_QUORUM
    /\ FAILURE_SAFETY = ActiveVBlockingSize

\* C7: without UNSAFE_QUORUM a load completes only if FAILURE_SAFETY # 0 and
\* the root threshold is at least minSize; validateConfig's test of the two,
\* which comes after the tests for an empty tree and for the v-blocking
\* bound, throws "SCP unsafe" otherwise.  FAILURE_SAFETY = 0 in the document
\* and no UNSAFE_QUORUM: the load never completes.
SafeQuorumRequired ==
    /\ (pc = "done" /\ ~UNSAFE_QUORUM) =>
           /\ FAILURE_SAFETY # 0
           /\ QUORUM_SET.threshold >= ActiveMinSize
    /\ (Validated /\ ~UNSAFE_QUORUM /\ ActiveNodes # {}
           /\ FAILURE_SAFETY < ActiveVBlockingSize
           /\ (FAILURE_SAFETY = 0 \/ QUORUM_SET.threshold < ActiveMinSize)) =>
           /\ pc = "failed"
           /\ err = "SCP unsafe"
    /\ (doc.FAILURE_SAFETY = 0 /\ ~doc.UNSAFE_QUORUM) => pc # "done"

\* thrown for a root threshold below minSize alone
SafeQuorumRequiredReached ==
    /\ pc = "failed"
    /\ errAt = "validate"
    /\ err = "SCP unsafe"
    /\ FAILURE_SAFETY > 0
    /\ QUORUM_SET.threshold < ActiveMinSize

\* one of the three safety conditions of validateConfig holds of the active
\* tree and FAILURE_SAFETY
BoundUnreachable == FAILURE_SAFETY >= ActiveVBlockingSize
ThresholdBelowMinimum == QUORUM_SET.threshold < ActiveMinSize
ZeroFailureSafety == FAILURE_SAFETY = 0

\* validateConfig threw one of its safety errors
SafetyErrorThrown ==
    /\ errAt = "validate"
    /\ err \in {"FAILURE_SAFETY incompatible with QUORUM_SET", "SCP unsafe"}

\* C8 as stated: each of the three safety errors (bound unreachable, root
\* threshold below the safe minimum, zero failure safety) is suppressed by
\* UNSAFE_QUORUM and aborts the load without it.
SafetyErrorsAllSuppressible ==
    /\ UNSAFE_QUORUM => ~SafetyErrorThrown
    /\ (Validated /\ ~UNSAFE_QUORUM /\ ActiveNodes # {}
           /\ (BoundUnreachable \/ ThresholdBelowMinimum \/ ZeroFailureSafety)) =>
           (pc = "failed" /\ SafetyErrorThrown)

\* C8, amended: the errors for a root threshold below the safe minimum and for
\* zero failure safety ("SCP unsafe") are suppressed by UNSAFE_QUORUM, the
\* error for an unreachable bound is thrown with UNSAFE_QUORUM as without it;
\* without UNSAFE_QUORUM each of the three aborts the load.
SafetyErrorsSuppressibleButBound ==
    /\ UNSAFE_QUORUM => ~(errAt = "validate" /\ err = "SCP unsafe")
    /\ (Validated /\ UNSAFE_QUORUM /\ ActiveNodes # {}) =>
           (BoundUnreachable <=>
               (pc = "failed" /\ err = "FAILURE_SAFETY incompatible with QUORUM_SET"))
    /\ (Validated /\ ~UNSAFE_QUORUM /\ ActiveNodes # {}
           /\ (BoundUnreachable \/ ThresholdBelowMinimum \/ ZeroFailureSafety)) =>
           (pc = "failed" /\ SafetyErrorThrown)

\* a load completes under UNSAFE_QUORUM with zero failure safety and a root
\* threshold below the minimum
SafetyErrorsSuppressedReached ==
    /\ pc = "done"
    /\ UNSAFE_QUORUM
    /\ ZeroFailureSafety
    /\ ThresholdBelowMinimum

\* C9: a load never completes when the active tree holds no identity,
\* whatever UNSAFE_QUORUM and FAILURE_SAFETY are: validation throws "no
\* validators defined in VALIDATORS/QUORUM_SET".
EmptyQuorumNeverLoads ==
    /\ pc = "done" => ActiveNodes # {}
    /\ (Validated /\ ActiveNodes = {}) =>
           /\ pc = "failed"
           /\ err = "no validators defined in VALIDATORS/QUORUM_SET"

\* thrown with UNSAFE_QUORUM set and FAILURE_SAFETY configured
EmptyQuorumNeverLoadsReached ==
    /\ pc = "failed"
    /\ errAt = "validate"
    /\ err = "no validators defined in VALIDATORS/QUORUM_SET"
    /\ ActiveNodes = {}
    /\ UNSAFE_QUORUM
    /\ FAILURE_SAFETY = 1

----------------------------------------------------------------------------
(* Properties of the generator (checked under SpecGen).                    *)

\* the HIGH entries of home domain d
HighOfDomain(vals, d) ==
    {i \in 1..Len(vals) : vals[i].mQuality = VALIDATOR_HIGH_QUALITY
                          /\ vals[i].mHomeDomain = d}

\* some home domain has HIGH entries, and fewer than 3
HasShortHighRun(vals) ==
    \E d \in GenDomains : Cardinality(HighOfDomain(vals, d)) \in {1, 2}

AllHigh(vals) ==
    \A i \in 1..Len(vals) : vals[i].mQuality = VALIDATOR_HIGH_QUALITY

\* C10: the generator throws for every validator list in which the HIGH
\* entries of some home domain are fewer than 3, and when all entries are
\* HIGH the exception is "must have redundancy of at least 3".
ShortHighRunRejected ==
    (pc = "generated" /\ HasShortHighRun(doc.validators)) =>
        /\ ret.err # ""
        /\ AllHigh(doc.validators) =>
               ret.err = "High quality validator must have redundancy of at least 3"

\* 4 HIGH validators in 4 home domains are refused
ShortHighRunRejectedReached ==
    /\ pc = "generated"
    /\ Len(doc.validators) = 4
    /\ AllHigh(doc.validators)
    /\ \A d \in GenDomains : Cardinality(HighOfDomain(doc.validators, d)) = 1
    /\ ret.err = "High quality validator must have redundancy of at least 3"

----------------------------------------------------------------------------
(* Properties of the history-archive test (checked under Spec).            *)

\* the keys of the validators that have a history archive
HistoryArchives ==
    {validators[i].mKey : i \in {j \in 1..Len(validators) : validators[j].mHasHistory}}

ArchivesBlocking == isVBlocking(QUORUM_SET, HistoryArchives)

\* C11: when the document has no QUORUM_SET and the validators with a
\* history archive are not v-blocking for the generated tree, the load throws
\* "SCP unsafe" before validation unless UNSAFE_QUORUM is set, and with
\* UNSAFE_QUORUM it goes on to validation; the test throws for no other
\* reason and is not made for a document with QUORUM_SET.
HistoryArchivesMustBlock ==
    /\ (~doc.hasQuorumSet /\ AtValidation) => (UNSAFE_QUORUM \/ ArchivesBlocking)
    /\ errAt = "auto" =>
           /\ ~doc.hasQuorumSet
           /\ err = "SCP unsafe"
           /\ ~UNSAFE_QUORUM
           /\ ~ArchivesBlocking

\* one of three validators of a domain has an archive: refused
HistoryArchivesMustBlockReached ==
    /\ pc = "failed"
    /\ errAt = "auto"
    /\ err = "SCP unsafe"
    /\ ~doc.hasQuorumSet
    /\ ~UNSAFE_QUORUM
    /\ HistoryArchives # {}
    /\ ~ArchivesBlocking

----------------------------------------------------------------------------
(* Properties of the model assembly (checked under SpecAssembly).          *)

\* parseValidators has returned
ValidatorsParsed == pc \in {"self", "generate"} \/ errAt = "self"

\* the quality HOME_DOMAINS of the document gives a home domain, NoQuality
\* if it gives none
DeclaredDomainQuality(d) ==
    IF \E i \in 1..Len(doc.HOME_DOMAINS) : doc.HOME_DOMAINS[i].domain = d
    THEN doc.HOME_DOMAINS[CHOOSE i \in 1..Len(doc.HOME_DOMAINS) :
                              doc.HOME_DOMAINS[i].domain = d].quality
    ELSE NoQuality

\* whether the entry has QUALITY and whether its home domain has a quality
HasExplicitQuality(f) == f.quality # NoQuality
HasDomainQuality(f) == DeclaredDomainQuality(f.homeDomain) # NoQuality

OneQualitySource(f) == HasExplicitQuality(f) # HasDomainQuality(f)

\* the quality of an entry that has one source
SourceQuality(f) ==
    IF HasExplicitQuality(f) THEN f.quality ELSE DeclaredDomainQuality(f.homeDomain)

\* the entries of the list that come from [[VALIDATORS]]
DeclaredEntries == 1..Len(doc.VALIDATORS)

\* the list ends with an entry made for the local node
EndsWithSelf ==
    /\ Len(validators) = Len(doc.VALIDATORS) + 1
    /\ validators[Len(validators)].mKey = SelfKey
    /\ validators[Len(validators)].mName = SelfName
    /\ validators[Len(validators)].mHomeDomain = doc.NODE_HOME_DOMAIN
    /\ validators[Len(validators)].mQuality = DeclaredDomainQuality(doc.NODE_HOME_DOMAIN)

\* a declared validator of HIGH quality without HISTORY
HighWithoutArchive(f) ==
    OneQualitySource(f) /\ SourceQuality(f) = VALIDATOR_HIGH_QUALITY /\ ~f.hist

\* C12 as stated: every entry of the list, the one for the local node
\* included, that has HIGH quality has a history archive, and a declared
\* validator of HIGH quality without HISTORY is refused by parseValidators.
HighQualityHasArchive ==
    /\ \A i \in 1..Len(validators) :
          validators[i].mQuality = VALIDATOR_HIGH_QUALITY => validators[i].mHasHistory
    /\ ValidatorsParsed =>
          \A i \in DeclaredEntries : ~HighWithoutArchive(doc.VALIDATORS[i])

\* C12, amended: every entry that comes from [[VALIDATORS]] and has HIGH
\* quality has a history archive, and a declared validator of HIGH quality
\* without HISTORY is refused by parseValidators ("high quality must have an
\* archive" when it is the first entry); the entry made for the local node has
\* no history archive, whatever its quality.
DeclaredHighQualityHasArchive ==
    /\ \A i \in 1..Len(validators) :
          (i \in DeclaredEntries /\ validators[i].mQuality = VALIDATOR_HIGH_QUALITY)
              => validators[i].mHasHistory
    /\ ValidatorsParsed =>
          \A i \in DeclaredEntries : ~HighWithoutArchive(doc.VALIDATORS[i])
    /\ (errAt = "validators" /\ HighWithoutArchive(doc.VALIDATORS[1])) =>
          err = "high quality must have an archive"
    /\ (pc = "generate" /\ Len(validators) > Len(doc.VALIDATORS)) =>
          ~validators[Len(validators)].mHasHistory

\* the entry for the local node is HIGH and has no archive, after a declared
\* HIGH entry that has one
DeclaredHighQualityHasArchiveReached ==
    /\ pc = "generate"
    /\ EndsWithSelf
    /\ validators[Len(validators)].mQuality = VALIDATOR_HIGH_QUALITY
    /\ ~validators[Len(validators)].mHasHistory
    /\ validators[1].mQuality = VALIDATOR_HIGH_QUALITY
    /\ validators[1].mHasHistory

\* C13: parseValidators returns only if every declared validator has exactly
\* one source of quality, QUALITY or an entry of HOME_DOMAINS for its home
\* domain, and then the quality of its entry is the one of that source; an
\* entry with both is refused as "quality already defined in home domain", an
\* entry with neither as "missing quality".
QualityFromOneSource ==
    /\ ValidatorsParsed =>
          \A i \in DeclaredEntries :
             /\ OneQualitySource(doc.VALIDATORS[i])
             /\ validators[i].mQuality = SourceQuality(doc.VALIDATORS[i])
    /\ (errAt = "validators" /\ HasExplicitQuality(doc.VALIDATORS[1])
           /\ HasDomainQuality(doc.VALIDATORS[1])) =>
          err = "quality already defined in home domain"
    /\ (errAt = "validators" /\ ~HasExplicitQuality(doc.VALIDATORS[1])
           /\ ~HasDomainQuality(doc.VALIDATORS[1])) =>
          err = "missing quality"

\* one entry takes MEDIUM from its QUALITY, the other LOW from HOME_DOMAINS
QualityFromOneSourceReached ==
    /\ pc = "self"
    /\ Len(validators) = 2
    /\ HasExplicitQuality(doc.VALIDATORS[1])
    /\ ~HasDomainQuality(doc.VALIDATORS[1])
    /\ validators[1].mQuality = VALIDATOR_MED_QUALITY
    /\ ~HasExplicitQuality(doc.VALIDATORS[2])
    /\ HasDomainQuality(doc.VALIDATORS[2])
    /\ validators[2].mQuality = VALIDATOR_LOW_QUALITY

\* NODE_IS_VALIDATOR, and not the case of QUORUM_SET without validators
SelfEntryDue ==
    doc.NODE_IS_VALIDATOR /\ ~(doc.VALIDATORS = <<>> /\ doc.hasQuorumSet)

\* C15 as stated: whenever NODE_IS_VALIDATOR is set the list handed to the
\* generator ends with an entry for the local node (its key, its home domain,
\* the quality declared for that domain), and the load fails if the home
\* domain has no declared quality.
SelfEntryWheneverValidator ==
    /\ (pc = "generate" /\ doc.NODE_IS_VALIDATOR) => EndsWithSelf
    /\ (doc.NODE_IS_VALIDATOR /\ DeclaredDomainQuality(doc.NODE_HOME_DOMAIN) = NoQuality)
          => pc # "generate"

\* C15, amended: whenever NODE_IS_VALIDATOR is set, unless the document has
\* QUORUM_SET and declares no validator, the list handed to the generator ends
\* with an entry for the local node (its key, its home domain, the quality
\* declared for that domain) and the load fails with "Must specify a matching
\* HOME_DOMAINS for self" if the home domain has no declared quality; in every
\* other case no entry is added and no quality is asked for.
SelfEntryUnlessQuorumSetOnly ==
    /\ (pc = "generate" /\ SelfEntryDue) => EndsWithSelf
    /\ (pc = "generate" /\ ~SelfEntryDue) => Len(validators) = Len(doc.VALIDATORS)
    /\ (SelfEntryDue /\ DeclaredDomainQuality(doc.NODE_HOME_DOMAIN) = NoQuality)
          => pc # "generate"
    /\ errAt = "self" =>
          /\ SelfEntryDue
          /\ DeclaredDomainQuality(doc.NODE_HOME_DOMAIN) = NoQuality
          /\ err = "Must specify a matching HOME_DOMAINS for self"
    /\ (pc = "failed" /\ ~SelfEntryDue) => errAt # "self"

\* a document with QUORUM_SET and a declared validator: the entry is added
SelfEntryUnlessQuorumSetOnlyReached ==
    /\ pc = "generate"
    /\ doc.NODE_IS_VALIDATOR
    /\ doc.hasQuorumSet
    /\ Len(doc.VALIDATORS) = 1
    /\ EndsWithSelf

----------------------------------------------------------------------------
(* Properties of the identity registry (checked under SpecRegistry).       *)

\* VALIDATOR_NAMES gives a key one name at most, and a name one key at most
OneToOne(names) ==
    \A p \in names : \A q \in names : (p[1] = q[1]) <=> (p[2] = q[2])

\* the last call came with a name or with a key that was registered
LastCallConflicts ==
    \/ \E p \in ret.before : p[2] = ret.name
    \/ \E p \in ret.before : p[1] = ret.key

\* the last call threw
LastCallFailed == err # ""

\* C14: after every sequence of calls of addValidatorName, returned or
\* thrown, VALIDATOR_NAMES gives every key one name at most and no name to two
\* keys; a call with a name that is registered, or with a key that has a
\* name, throws, and a call that throws leaves VALIDATOR_NAMES as it was.
RegistryOneToOne ==
    /\ OneToOne(VALIDATOR_NAMES)
    /\ (ret.key # 0 /\ LastCallConflicts) => LastCallFailed
    /\ (ret.key # 0 /\ LastCallFailed) => VALIDATOR_NAMES = ret.before
    /\ (ret.key # 0 /\ ~LastCallConflicts) =>
          VALIDATOR_NAMES = ret.before \cup {<<ret.key, ret.name>>}

\* with two names registered, a call for a third key under one of the names
\* has thrown
RegistryOneToOneReached ==
    /\ Cardinality(VALIDATOR_NAMES) = 2
    /\ ret.key # 0
    /\ \E p \in ret.before : p[2] = ret.name /\ p[1] # ret.key
    /\ ~(\E p \in ret.before : p[1] = ret.key)
    /\ err = "name already used"
    /\ VALIDATOR_NAMES = ret.before

----------------------------------------------------------------------------
(* Properties of the generated tree (checked under SpecGen).               *)

\* generateQuorumSetHelper has returned a tree
Helped == pc = "helped" /\ ret.err = ""

\* the entry of the input list with key k (entry i has key 10 i)
EntryOfKey(k) == doc.validators[k \div 10]

\* a domain set: validators and no inner sets
IsDomainSet(q) == q.validators # <<>> /\ q.innerSets = <<>>

RECURSIVE DomainSetsOf(_)
\* the domain sets of a tree, in the order they stand in it
DomainSetsOf(q) ==
    IF q.innerSets = <<>>
    THEN IF q.validators = <<>> THEN <<>> ELSE <<q>>
    ELSE DomainSetsOf(Head(q.innerSets))
         \o DomainSetsOf([q EXCEPT !.innerSets = Tail(q.innerSets), !.validators = <<>>])

\* the end of the run that starts at i: the first position after i with
\* another home domain or another quality
RunEnd(todo, i) ==
    LET stops == {j \in (i + 1)..Len(todo) :
                     \/ todo[j].mHomeDomain # todo[i].mHomeDomain
                     \/ todo[j].mQuality # todo[i].mQuality}
    IN  IF stops = {} THEN Len(todo) + 1
        ELSE CHOOSE j \in stops : \A k \in stops : j <= k

RECURSIVE RunsFrom(_, _)
\* the keys of the runs of the sorted list from position i on
RunsFrom(todo, i) ==
    IF i > Len(todo)
    THEN <<>>
    ELSE <<[k \in 1..(RunEnd(todo, i) - i) |-> todo[i + k - 1].mKey]>>
         \o RunsFrom(todo, RunEnd(todo, i))

\* three HIGH validators of one home domain and nothing else
ThreeHighOfOneDomain(vals) ==
    /\ Len(vals) = 3
    /\ \A i \in 1..3 : vals[i].mQuality = VALIDATOR_HIGH_QUALITY
                       /\ vals[i].mHomeDomain = vals[1].mHomeDomain

KeysBelow(q) ==
    {doc.validators[i].mKey : i \in {j \in 1..Len(doc.validators) : doc.validators[j].mQuality < q}}

\* the keys of the input with quality q
KeysOfQuality(q) ==
    {doc.validators[i].mKey : i \in {j \in 1..Len(doc.validators) : doc.validators[j].mQuality = q}}

\* the highest quality below q that the input has (asked when one is there)
NextQualityBelow(q) ==
    CHOOSE x \in Qualities :
        /\ x < q
        /\ KeysOfQuality(x) # {}
        /\ \A y \in Qualities : (y < q /\ KeysOfQuality(y) # {}) => y <= x

\* the home domain of a domain set
DomainOfSet(s) == EntryOfKey(s.validators[1]).mHomeDomain

RECURSIVE TierNodeShaped(_, _)
\* node is the node of the tier of quality q: the domain sets of quality q in
\* ascending order of home domain, then one node for the tiers below if the
\* input has validators of lower quality (and none if not), under the
\* threshold k - (k - 1) / 3 of its k inner sets (0 when it has none)
TierNodeShaped(node, q) ==
    LET k == Len(node.innerSets)
        nSets == IF KeysBelow(q) = {} THEN k ELSE k - 1
    IN  /\ node.validators = <<>>
        /\ nSets >= 0
        /\ \A i \in 1..nSets :
              /\ IsDomainSet(node.innerSets[i])
              /\ \A j \in 1..Len(node.innerSets[i].validators) :
                    /\ EntryOfKey(node.innerSets[i].validators[j]).mQuality = q
                    /\ EntryOfKey(node.innerSets[i].validators[j]).mHomeDomain
                           = DomainOfSet(node.innerSets[i])
        /\ \A i \in 1..(nSets - 1) :
              DomainOfSet(node.innerSets[i]) < DomainOfSet(node.innerSets[i + 1])
        /\ UNION {forAllNodes(node.innerSets[i]) : i \in 1..nSets} = KeysOfQuality(q)
        /\ KeysBelow(q) # {} =>
              /\ forAllNodes(node.innerSets[k]) = KeysBelow(q)
              /\ TierNodeShaped(node.innerSets[k], NextQualityBelow(q))
        /\ IF k = 0
           THEN node.threshold = 0
           ELSE node.threshold = k - (k - 1) \div 3

\* C17: the tree generateQuorumSetHelper returns is, tier by tier from HIGH
\* down, a node whose inner sets are the domain sets of the tier in ascending
\* order of home domain, followed by exactly one inner set with the tree of
\* all lower tiers when the list has validators of lower quality; the
\* threshold of the node is k - (k - 1) / 3 for its k inner sets.
TiersNested ==
    Helped => TierNodeShaped(ret.val, VALIDATOR_HIGH_QUALITY)

\* MEDIUM domains 1 and 2 over a LOW tier, under a root without HIGH domains:
\* the MEDIUM node has 3 inner sets and threshold 3
TiersNestedReached ==
    /\ Helped
    /\ Len(doc.validators) = 4
    /\ Len(ret.val.innerSets) = 1
    /\ ret.val.threshold = 1
    /\ Len(ret.val.innerSets[1].innerSets) = 3
    /\ ret.val.innerSets[1].threshold = 3
    /\ DomainOfSet(ret.val.innerSets[1].innerSets[1]) = 1
    /\ DomainOfSet(ret.val.innerSets[1].innerSets[2]) = 2
    /\ ~IsDomainSet(ret.val.innerSets[1].innerSets[3])
    /\ forAllNodes(ret.val.innerSets[1].innerSets[3]) = KeysOfQuality(VALIDATOR_LOW_QUALITY)

RECURSIVE InSameSet(_, _, _)
\* some node of the tree has both keys among its validators
InSameSet(q, a, b) ==
    \/ \E i \in 1..Len(q.validators) : \E j \in 1..Len(q.validators) :
          q.validators[i] = a /\ q.validators[j] = b
    \/ \E i \in 1..Len(q.innerSets) : InSameSet(q.innerSets[i], a, b)

\* two entries of the list share the home domain and differ in quality
HasDomainOfTwoQualities(vals) ==
    \E i \in 1..Len(vals) : \E j \in 1..Len(vals) :
        /\ vals[i].mHomeDomain = vals[j].mHomeDomain
        /\ vals[i].mQuality # vals[j].mQuality

\* C20: when generateQuorumSet returns a tree, any two validators of the list
\* with the same home domain have the same quality and stand in the same
\* inner set; a list with a home domain whose validators differ in quality
\* makes it throw "Validators must have same quality".
SameDomainSameQuality ==
    /\ (pc = "generated" /\ ret.err = "") =>
          \A i \in 1..Len(doc.validators) : \A j \in 1..Len(doc.validators) :
             doc.validators[i].mHomeDomain = doc.validators[j].mHomeDomain =>
                /\ doc.validators[i].mQuality = doc.validators[j].mQuality
                /\ InSameSet(ret.val, doc.validators[i].mKey, doc.validators[j].mKey)
    /\ (pc = "generated" /\ HasDomainOfTwoQualities(doc.validators)) =>
          ret.err = "Validators must have same quality"

----------------------------------------------------------------------------
(* Properties of the derived FAILURE_SAFETY (checked under Spec).          *)

\* the number of children of the root of the active tree
TopLevelCount == Len(QUORUM_SET.validators) + Len(QUORUM_SET.innerSets)

\* the document has QUORUM_SET, or its validators (with the entry for the
\* local node) have more than one home domain
ManualOrSeveralDomains ==
    \/ doc.hasQuorumSet
    \/ \E i \in 1..Len(validators) : \E j \in 1..Len(validators) :
          validators[i].mHomeDomain # validators[j].mHomeDomain

\* the threshold of n children: n - (n - 1) / 3, or n - (n - 1) / 2
ByzantineOf(n) == n - (n - 1) \div 3
SimpleMajorityOf(n) == n - (n - 1) \div 2

\* C18: when the document sets no FAILURE_SAFETY, validation of a tree that
\* holds an identity sets it to topLevelCount - minSize, minSize the Byzantine
\* threshold of topLevelCount when mixedDomains and the simple majority when
\* not; mixedDomains is true for every document with QUORUM_SET and otherwise
\* exactly when the validators have more than one home domain; a
\* FAILURE_SAFETY the document sets to 0 or more is left as it is.
FailureSafetyDerived ==
    /\ AtValidation => (mixedDomains <=> ManualOrSeveralDomains)
    /\ (Validated /\ doc.FAILURE_SAFETY = FailureSafetyUnset /\ ActiveNodes # {}) =>
          FAILURE_SAFETY = TopLevelCount
                           - (IF ManualOrSeveralDomains
                              THEN ByzantineOf(TopLevelCount)
                              ELSE SimpleMajorityOf(TopLevelCount))
    /\ (Validated /\ doc.FAILURE_SAFETY >= 0) => FAILURE_SAFETY = doc.FAILURE_SAFETY

\* three validators of one home domain: 3 - 2 = 1, where the Byzantine
\* threshold would give 3 - 3 = 0
FailureSafetyDerivedReached ==
    /\ pc = "done"
    /\ ~doc.hasQuorumSet
    /\ doc.FAILURE_SAFETY = FailureSafetyUnset
    /\ ~mixedDomains
    /\ TopLevelCount = 3
    /\ FAILURE_SAFETY = 1

----------------------------------------------------------------------------
(* Properties of the order of the items (checked under SpecOrder).         *)

\* the loop over the items has been left without a throw
ItemsRead == pc # "item" /\ errAt # "item"

\* the steps after the loop, in the order processConfig takes them
AfterValidators ==
    pc \in {"self", "generate", "qset", "auto", "validate", "done"}
    \/ errAt \in {"self", "generate", "qset", "auto", "validate"}
AfterSelf ==
    pc \in {"generate", "qset", "auto", "validate", "done"}
    \/ errAt \in {"generate", "qset", "auto", "validate"}
AfterGenerate ==
    pc \in {"qset", "auto", "validate", "done"} \/ errAt \in {"qset", "auto", "validate"}

\* HOME_DOMAINS of the document as a map
DeclaredDomainQualities ==
    {<<doc.HOME_DOMAINS[i].domain, doc.HOME_DOMAINS[i].quality>> :
        i \in 1..Len(doc.HOME_DOMAINS)}

\* the list the document stands for: its entries with the quality of their
\* one source, and the entry for the local node where one is due
DeclaredValidators ==
    [i \in 1..Len(doc.VALIDATORS) |->
        [mName |-> doc.VALIDATORS[i].name,
         mHomeDomain |-> doc.VALIDATORS[i].homeDomain,
         mQuality |-> SourceQuality(doc.VALIDATORS[i]),
         mKey |-> doc.VALIDATORS[i].pubKey,
         mHasHistory |-> doc.VALIDATORS[i].hist]]

DeclaredSelf ==
    [mName |-> SelfName, mHomeDomain |-> doc.NODE_HOME_DOMAIN,
     mQuality |-> DeclaredDomainQuality(doc.NODE_HOME_DOMAIN),
     mKey |-> SelfKey, mHasHistory |-> FALSE]

DeclaredModel ==
    IF SelfEntryDue THEN Append(DeclaredValidators, DeclaredSelf) ELSE DeclaredValidators

\* C19: in whatever order the items are read, no validator is resolved and
\* no tree is made while the loop runs; when it is left every key has been
\* read and the domain-quality map is the whole of HOME_DOMAINS; parsing of
\* the validators, the entry for the local node, generation, the loading of
\* QUORUM_SET and validation follow in this order; and the quality of every
\* entry and the generated tree are those the document stands for, whatever
\* the order was.
ItemOrderImmaterial ==
    /\ pc = "item" =>
          /\ validators = <<>>
          /\ VALIDATOR_NAMES = {}
          /\ autoQSet = EmptyQSet
          /\ QUORUM_SET = EmptyQSet
    /\ ItemsRead =>
          /\ ret = PresentKeys(doc)
          /\ domainQualityMap = DeclaredDomainQualities
          /\ UNSAFE_QUORUM = doc.UNSAFE_QUORUM
          /\ NODE_IS_VALIDATOR = doc.NODE_IS_VALIDATOR
          /\ NODE_HOME_DOMAIN = doc.NODE_HOME_DOMAIN
          /\ (pc # "done" /\ errAt # "validate") => FAILURE_SAFETY = doc.FAILURE_SAFETY
    /\ validators # <<>> => (AfterValidators \/ errAt = "validators")
    /\ autoQSet # EmptyQSet => AfterGenerate
    /\ QUORUM_SET # EmptyQSet => AfterGenerate
    /\ AfterValidators =>
          \A i \in DeclaredEntries :
             /\ OneQualitySource(doc.VALIDATORS[i])
             /\ validators[i].mQuality = SourceQuality(doc.VALIDATORS[i])
    /\ AfterSelf => validators = DeclaredModel
    /\ AfterGenerate =>
          autoQSet \in {r.val : r \in generateQuorumSet(DeclaredModel)}

\* three validators take HIGH from HOME_DOMAINS and the load completes with
\* the tree generated from them
ItemOrderImmaterialReached ==
    /\ pc = "done"
    /\ ~doc.hasQuorumSet
    /\ Len(doc.VALIDATORS) = 3
    /\ ~HasExplicitQuality(doc.VALIDATORS[1])
    /\ validators[1].mQuality = VALIDATOR_HIGH_QUALITY
    /\ QUORUM_SET = autoQSet
    /\ autoQSet.threshold = 2
    /\ Len(autoQSet.validators) = 3

----------------------------------------------------------------------------
(* QUORUM_SET against the tree generated from the validators (checked      *)
(* under Spec).                                                            *)

\* the load came to the comparison: QUORUM_SET is in the document and the
\* steps before loadQset returned
QuorumSetSupplied ==
    /\ doc.hasQuorumSet
    /\ \/ pc \in {"validate", "done"}
       \/ pc = "failed" /\ errAt \in {"qset", "validate"}

\* loadQset returned: the supplied tree is in QUORUM_SET
SuppliedTreeLoaded == loadQset(doc.QUORUM_SET, 0).err = ""

\* toString(QUORUM_SET) != toString(autoQSet)
RenderingDiffers ==
    toJson(VALIDATOR_NAMES, QUORUM_SET) # toJson(VALIDATOR_NAMES, autoQSet)

\* the load ended in the comparison
OverrideRefused == pc = "failed" /\ errAt = "qset" /\ err = "SCP unsafe"

\* the supplied tree is the active one and went on to validateConfig
SuppliedTreeUsed ==
    /\ errAt # "qset"
    /\ QUORUM_SET = loadQset(doc.QUORUM_SET, 0).val
    /\ mixedDomains

\* C21: when QUORUM_SET is supplied and loads, with a validator list that is
\* not empty and a rendering that differs from the rendering of the tree
\* generated from the validators, the load fails with "SCP unsafe" unless
\* UNSAFE_QUORUM is set, and with UNSAFE_QUORUM set the supplied tree is
\* used; with an empty validator list the supplied tree is used whatever the
\* renderings and UNSAFE_QUORUM are.
SuppliedTreeMustMatchGenerated ==
    (QuorumSetSupplied /\ SuppliedTreeLoaded) =>
        /\ (validators # <<>> /\ RenderingDiffers /\ ~UNSAFE_QUORUM) => OverrideRefused
        /\ (validators # <<>> /\ RenderingDiffers /\ UNSAFE_QUORUM) => SuppliedTreeUsed
        /\ validators = <<>> => SuppliedTreeUsed

\* three validators of one domain, a QUORUM_SET of two of them, no override
SuppliedTreeMustMatchGeneratedReached ==
    /\ QuorumSetSupplied
    /\ SuppliedTreeLoaded
    /\ Len(validators) = 3
    /\ Len(QUORUM_SET.validators) = 2
    /\ RenderingDiffers
    /\ ~UNSAFE_QUORUM
    /\ OverrideRefused

----------------------------------------------------------------------------
(* The generated tree under validateConfig (checked under SpecAuto).       *)

\* the generated tree is the active one and validateConfig is reached
GeneratedActive ==
    /\ ~doc.hasQuorumSet
    /\ \/ pc \in {"validate", "done"}
       \/ pc = "failed" /\ errAt = "validate"

\* validateConfig derived FAILURE_SAFETY: the document sets none, and the
\* tree has validators
GeneratedValidated ==
    /\ GeneratedActive
    /\ pc # "validate"
    /\ doc.FAILURE_SAFETY = FailureSafetyUnset
    /\ forAllNodes(QUORUM_SET) # {}

\* C22: for every generated and normalized active tree of a load without a
\* configured FAILURE_SAFETY, the root threshold equals minSize, and after
\* validateConfig the derived FAILURE_SAFETY is less than the size of the
\* smallest v-blocking set, so neither "FAILURE_SAFETY incompatible with
\* QUORUM_SET" is thrown nor the test QUORUM_SET.threshold < minSize holds.
GeneratedTreeMeetsMinSize ==
    /\ (GeneratedActive /\ doc.FAILURE_SAFETY = FailureSafetyUnset) =>
           QUORUM_SET.threshold = minSizeOf(QUORUM_SET, mixedDomains)
    /\ GeneratedValidated =>
           /\ FAILURE_SAFETY = Len(QUORUM_SET.validators) + Len(QUORUM_SET.innerSets)
                                  - minSizeOf(QUORUM_SET, mixedDomains)
           /\ FAILURE_SAFETY < findClosestVBlockingSize(QUORUM_SET)
           /\ err # "FAILURE_SAFETY incompatible with QUORUM_SET"
           /\ ~thresholdTooLow(QUORUM_SET.threshold, minSizeOf(QUORUM_SET, mixedDomains))

\* four validators of one home domain: a flat tree under the simple majority
\* of 3, FAILURE_SAFETY derived as 1, two failures block
GeneratedTreeMeetsMinSizeReached ==
    /\ GeneratedValidated
    /\ pc = "done"
    /\ ~mixedDomains
    /\ Len(QUORUM_SET.validators) = 4
    /\ QUORUM_SET.threshold = 3
    /\ FAILURE_SAFETY = 1
    /\ findClosestVBlockingSize(QUORUM_SET) = 2

----------------------------------------------------------------------------
(* Termination of the generator (checked under SpecHelper).                *)

\* every open call but the first was made for a tier strictly below its
\* caller's, on the part of the list its caller had not yet passed, and no
\* more than three calls are open
RecursionDescends ==
    pc = "helper" =>
        /\ Len(ret.stack) <= 3
        /\ ret.stack[1].begin = 1
        /\ ret.stack[1].curQuality = VALIDATOR_HIGH_QUALITY
        /\ \A k \in 2..Len(ret.stack) :
              /\ ret.stack[k].curQuality < ret.stack[k - 1].curQuality
              /\ ret.stack[k].begin = ret.stack[k - 1].it
              /\ ret.stack[k].begin >= ret.stack[k - 1].begin
              /\ ret.stack[k].begin <= Len(ret.todo)

GeneratorEnded == pc \in {"returned", "threw"}

\* C23: generateQuorumSet ends, by a return or a throw, for every validator
\* list; every recursive call of the helper is for a strictly lower quality
\* tier than its caller's and on a suffix of its caller's part of the list,
\* so at most three calls (HIGH, MEDIUM, LOW) are nested.
GeneratorTerminates == []RecursionDescends /\ <>GeneratorEnded

\* the generator returned a tree for four entries of the tiers MEDIUM and
\* LOW, for which the call for HIGH makes a call for MEDIUM and that one a
\* call for LOW
GeneratorTerminatesReached ==
    /\ pc = "returned"
    /\ Len(ret.todo) = 4
    /\ {ret.todo[i].mQuality : i \in 1..Len(ret.todo)}
          = {VALIDATOR_MED_QUALITY, VALIDATOR_LOW_QUALITY}
    /\ forAllNodes(ret.val) = {ret.todo[i].mKey : i \in 1..Len(ret.todo)}

----------------------------------------------------------------------------
(* The default THRESHOLD_PERCENT against minSize (checked under            *)
(* SpecManualRoot).                                                        *)

\* loadQset returned the tree of a QUORUM_SET whose root has no
\* THRESHOLD_PERCENT
DefaultPercentRootLoaded ==
    /\ doc.hasQuorumSet
    /\ doc.QUORUM_SET.percent = 0
    /\ \/ pc \in {"validate", "done"}
       \/ pc = "failed" /\ errAt = "validate"

RootChildren == Len(QUORUM_SET.validators) + Len(QUORUM_SET.innerSets)

\* C24: for every n >= 1 the root of a QUORUM_SET with n children and the
\* default THRESHOLD_PERCENT has the threshold of the n = 3f + 1 rule,
\* 1 + (67 n - 1) / 100 = n - (n - 1) / 3, which is the minSize of
\* validateConfig.
DefaultPercentIsMinSize ==
    DefaultPercentRootLoaded =>
        /\ QUORUM_SET.threshold = RootChildren - (RootChildren - 1) \div 3
        /\ QUORUM_SET.threshold = minSizeOf(QUORUM_SET, mixedDomains)

====
